---- MODULE Spec2Model ----
(***************************************************************************)
(* Verification model of the cEDH analytics frontend: the statistics that  *)
(* the pages compute inline (seat fairness on /turn-order, the two-sided   *)
(* p-value badge on /commanders/[id]).                                     *)
(*                                                                         *)
(* JavaScript numbers are modelled as IEEE-754 style values: NaN, +/-      *)
(* Infinity and finite values.  A finite value is a sign and a magnitude   *)
(* kept in decimal fixed point with FracLimbs*4 = 20 fractional digits     *)
(* (finer than the 15..17 significant digits of a binary64), every         *)
(* operation truncating toward zero.  The magnitude is an unbounded        *)
(* natural held as a little-endian sequence of base-10^4 limbs, because    *)
(* TLC's own integers are 32 bits wide.                                    *)
(***************************************************************************)
EXTENDS Integers, Sequences, FiniteSets, TLC

(***************************************************************************)
(* Unbounded naturals: <<>> is 0, limb 1 is the least significant.         *)
(***************************************************************************)
Base == 10^4

RECURSIVE NTrim(_)
NTrim(a) ==
    IF a = <<>> THEN <<>>
    ELSE IF a[Len(a)] = 0 THEN NTrim(SubSeq(a, 1, Len(a) - 1))
    ELSE a

RECURSIVE NFromInt(_)
NFromInt(n) ==
    IF n = 0 THEN <<>> ELSE <<n % Base>> \o NFromInt(n \div Base)

NLimb(a, i) == IF i <= Len(a) THEN a[i] ELSE 0

NMaxLen(a, b) == IF Len(a) >= Len(b) THEN Len(a) ELSE Len(b)

RECURSIVE NAddFrom(_, _, _, _)
NAddFrom(a, b, i, carry) ==
    IF i > NMaxLen(a, b)
    THEN (IF carry = 0 THEN <<>> ELSE <<carry>>)
    ELSE LET s == NLimb(a, i) + NLimb(b, i) + carry
         IN  <<s % Base>> \o NAddFrom(a, b, i + 1, s \div Base)

NAdd(a, b) == NTrim(NAddFrom(a, b, 1, 0))

\* a - b for a >= b
RECURSIVE NSubFrom(_, _, _, _)
NSubFrom(a, b, i, borrow) ==
    IF i > Len(a) THEN <<>>
    ELSE LET d == a[i] - NLimb(b, i) - borrow
         IN  IF d < 0
             THEN <<d + Base>> \o NSubFrom(a, b, i + 1, 1)
             ELSE <<d>> \o NSubFrom(a, b, i + 1, 0)

NSub(a, b) == NTrim(NSubFrom(a, b, 1, 0))

\* -1, 0, 1 as a < b, a = b, a > b (both trimmed)
RECURSIVE NCmpFrom(_, _, _)
NCmpFrom(a, b, i) ==
    IF i = 0 THEN 0
    ELSE IF a[i] < b[i] THEN -1
    ELSE IF a[i] > b[i] THEN 1
    ELSE NCmpFrom(a, b, i - 1)

NCmp(a, b) ==
    IF Len(a) < Len(b) THEN -1
    ELSE IF Len(a) > Len(b) THEN 1
    ELSE NCmpFrom(a, b, Len(a))

NLe(a, b) == NCmp(a, b) <= 0

\* a * k for a single limb 0 <= k < Base
RECURSIVE NMulSmallFrom(_, _, _, _)
NMulSmallFrom(a, k, i, carry) ==
    IF i > Len(a)
    THEN (IF carry = 0 THEN <<>> ELSE <<carry>>)
    ELSE LET p == a[i] * k + carry
         IN  <<p % Base>> \o NMulSmallFrom(a, k, i + 1, p \div Base)

NMulSmall(a, k) == NTrim(NMulSmallFrom(a, k, 1, 0))

NZeros(n) == [i \in 1..n |-> 0]

\* a * Base^n
NShl(a, n) == IF a = <<>> THEN <<>> ELSE NZeros(n) \o a

\* floor(a / Base^n)
NShr(a, n) == IF Len(a) <= n THEN <<>> ELSE SubSeq(a, n + 1, Len(a))

\* acc + a * (limbs i..Len(b) of b, in place); the test on acc has TLC
\* evaluate each partial sum before the next one is formed
RECURSIVE NMulFrom(_, _, _, _)
NMulFrom(a, b, i, acc) ==
    IF i > Len(b) THEN acc
    ELSE IF Len(acc) >= 0
    THEN NMulFrom(a, b, i + 1, NAdd(acc, NShl(NMulSmall(a, b[i]), i - 1)))
    ELSE <<>>

NMul(a, b) == NMulFrom(a, b, 1, <<>>)

\* floor(a / k) for a single limb 0 < k < Base, from the top limb down
RECURSIVE NDivSmallFrom(_, _, _, _)
NDivSmallFrom(a, k, i, rem) ==
    IF i = 0 THEN <<>>
    ELSE LET cur == rem * Base + a[i]
         IN  NDivSmallFrom(a, k, i - 1, cur % k) \o <<cur \div k>>

NDivSmall(a, k) == NTrim(NDivSmallFrom(a, k, Len(a), 0))

\* the number of zero limbs at the low end of b # 0
RECURSIVE NLowZeros(_, _)
NLowZeros(b, i) == IF b[i] # 0 THEN i - 1 ELSE NLowZeros(b, i + 1)

\* the largest d <= q with d * b <= cur
RECURSIVE NQuotFix(_, _, _)
NQuotFix(cur, b, q) ==
    IF NLe(NMulSmall(b, q), cur) THEN q ELSE NQuotFix(cur, b, q - 1)

\* the quotient limb floor(cur / b) for cur < b * Base and a divisor whose
\* top limb is at least Base / 2: estimated from the top limbs (never too
\* small, at most 2 too large), then corrected
NQuotLimb(cur, b) ==
    LET n   == Len(b)
        est == (NLimb(cur, n + 1) * Base + NLimb(cur, n)) \div b[n]
    IN  NQuotFix(cur, b, IF est > Base - 1 THEN Base - 1 ELSE est)

\* long division from limb i of a down: q and r are the quotient and the
\* remainder of the limbs above i.  The test has TLC evaluate q2 and r2
\* before the next limb is taken.
RECURSIVE NDivFrom(_, _, _, _, _)
NDivFrom(a, b, i, q, r) ==
    IF i = 0 THEN q
    ELSE LET cur == NTrim(<<a[i]>> \o r)
             d   == NQuotLimb(cur, b)
             q2  == NTrim(<<d>> \o q)
             r2  == NSub(cur, NMulSmall(b, d))
         IN  IF Len(q2) >= 0 /\ Len(r2) >= 0
             THEN NDivFrom(a, b, i - 1, q2, r2)
             ELSE <<>>

\* floor(a / b) for b > 0: the zero limbs at the low end of b are dropped
\* from both, a one-limb divisor is divided by directly, and a longer one
\* is first scaled (with a) so that its top limb is at least Base / 2
NDiv(a, b) ==
    LET z  == NLowZeros(b, 1)
        a1 == NShr(a, z)
        b1 == NShr(b, z)
        f  == Base \div (b1[Len(b1)] + 1)
        a2 == NMulSmall(a1, f)
        b2 == NMulSmall(b1, f)
    IN  IF Len(b1) = 1 THEN NDivSmall(a1, b1[1])
        ELSE IF Len(a2) >= 0 /\ Len(b2) >= 0
        THEN NDivFrom(a2, b2, Len(a2), <<>>, <<>>)
        ELSE <<>>

\* floor(sqrt(t)) of an integer 0 <= t < Base^2, between lo and hi
RECURSIVE ISqrt(_, _, _)
ISqrt(t, lo, hi) ==
    IF lo = hi THEN lo
    ELSE LET mid == (lo + hi + 1) \div 2
         IN  IF mid * mid <= t THEN ISqrt(t, mid, hi) ELSE ISqrt(t, lo, mid - 1)

\* Newton's iteration x -> floor((x + floor(a / x)) / 2) from x >= sqrt(a),
\* which decreases to floor(sqrt(a))
RECURSIVE NSqrtFrom(_, _)
NSqrtFrom(a, x) ==
    LET y == NDivSmall(NAdd(x, NDiv(a, x)), 2)
    IN  IF NCmp(y, x) >= 0 THEN x ELSE NSqrtFrom(a, y)

\* floor(sqrt(a)).  Up to two limbs the root is found on the integer; a
\* longer a starts Newton's iteration from the root of a without its low
\* 2k limbs, plus one, times Base^k, which is above sqrt(a)
RECURSIVE NSqrt(_)
NSqrt(a) ==
    LET n  == Len(a)
        k  == IF n < 4 THEN 1 ELSE n \div 4
        hi == NSqrt(NShr(a, 2 * k))
    IN  IF n = 0 THEN <<>>
        ELSE IF n = 1 THEN NFromInt(ISqrt(a[1], 0, Base - 1))
        ELSE IF n = 2 THEN NFromInt(ISqrt(a[2] * Base + a[1], 0, Base - 1))
        ELSE IF Len(hi) >= 0 THEN NSqrtFrom(a, NShl(NAdd(hi, <<1>>), k))
        ELSE <<>>

(***************************************************************************)
(* JavaScript numbers.  [k |-> "nan"], [k |-> "inf", s |-> 1 or -1] and    *)
(* [k |-> "fin", s |-> 1 or -1, m |-> magnitude * 10^(4*FracLimbs)].       *)
(* Zero is kept with sign 1 (no operation of the pages tells -0 from 0     *)
(* except through 1/-0, which the pages never form).                       *)
(***************************************************************************)
FracLimbs == 5

NaN == [k |-> "nan"]

Inf(sgn) == [k |-> "inf", s |-> sgn]

Fin(sgn, mag) == [k |-> "fin", s |-> IF mag = <<>> THEN 1 ELSE sgn, m |-> mag]

IsNaN(a) == a.k = "nan"

IsInf(a) == a.k = "inf"

IsFinite(a) == a.k = "fin"

IsZero(a) == a.k = "fin" /\ a.m = <<>>

NOne == NShl(<<1>>, FracLimbs)

\* the decimal literal n * 10^-d, 0 <= d <= 4*FracLimbs
Dec(n, d) ==
    LET e == 4 * FracLimbs - d
        a == IF n < 0 THEN -n ELSE n
    IN  Fin(IF n < 0 THEN -1 ELSE 1,
            NShl(NMulSmall(NFromInt(a), 10^(e % 4)), e \div 4))

Num(n) == Dec(n, 0)

\* unary minus
JsNeg(a) ==
    IF IsNaN(a) THEN NaN
    ELSE IF IsInf(a) THEN Inf(-a.s)
    ELSE Fin(-a.s, a.m)

\* Math.abs
MathAbs(a) ==
    IF IsNaN(a) THEN NaN
    ELSE IF IsInf(a) THEN Inf(1)
    ELSE Fin(1, a.m)

\* a + b
JsAdd(a, b) ==
    IF IsNaN(a) \/ IsNaN(b) THEN NaN
    ELSE IF IsInf(a) /\ IsInf(b) THEN (IF a.s = b.s THEN a ELSE NaN)
    ELSE IF IsInf(a) THEN a
    ELSE IF IsInf(b) THEN b
    ELSE IF a.s = b.s THEN Fin(a.s, NAdd(a.m, b.m))
    ELSE IF NLe(b.m, a.m) THEN Fin(a.s, NSub(a.m, b.m))
    ELSE Fin(b.s, NSub(b.m, a.m))

\* a - b
JsSub(a, b) == JsAdd(a, JsNeg(b))

\* a * b
JsMul(a, b) ==
    IF IsNaN(a) \/ IsNaN(b) THEN NaN
    ELSE IF IsInf(a) \/ IsInf(b)
         THEN (IF IsZero(a) \/ IsZero(b) THEN NaN ELSE Inf(a.s * b.s))
    ELSE Fin(a.s * b.s, NShr(NMul(a.m, b.m), FracLimbs))

\* a / b
JsDiv(a, b) ==
    IF IsNaN(a) \/ IsNaN(b) THEN NaN
    ELSE IF IsInf(a) THEN (IF IsInf(b) THEN NaN ELSE Inf(a.s * b.s))
    ELSE IF IsInf(b) THEN Fin(1, <<>>)
    ELSE IF IsZero(b) THEN (IF IsZero(a) THEN NaN ELSE Inf(a.s * b.s))
    ELSE Fin(a.s * b.s, NDiv(NShl(a.m, FracLimbs), b.m))

\* a < b (false when either is NaN)
JsLt(a, b) ==
    IF IsNaN(a) \/ IsNaN(b) THEN FALSE
    ELSE IF IsInf(a) THEN a.s = -1 /\ ~(IsInf(b) /\ b.s = -1)
    ELSE IF IsInf(b) THEN b.s = 1
    ELSE IF a.s # b.s THEN a.s < b.s
    ELSE IF a.s = 1 THEN NCmp(a.m, b.m) < 0
    ELSE NCmp(a.m, b.m) > 0

\* a > b
JsGt(a, b) == JsLt(b, a)

\* a >= b (false when either is NaN)
JsGe(a, b) == ~IsNaN(a) /\ ~IsNaN(b) /\ ~JsLt(a, b)

\* a <= b
JsLe(a, b) == JsGe(b, a)

\* Math.sqrt
MathSqrt(a) ==
    IF IsNaN(a) THEN NaN
    ELSE IF IsInf(a) THEN (IF a.s = 1 THEN a ELSE NaN)
    ELSE IF a.s = -1 THEN NaN
    ELSE Fin(1, NSqrt(NShl(a.m, FracLimbs)))

\* Math.exp.  For a finite y, e^|y| by halving |y| below 1/2, summing the
\* Taylor series and squaring back; e^-|y| is its reciprocal.
\* acc + term + term*r/i + term*r^2/(i*(i+1)) + ... until a term is 0
RECURSIVE ExpSeries(_, _, _, _)
ExpSeries(r, term, i, acc) ==
    IF term = <<>> THEN acc
    ELSE IF Len(acc) >= 0
    THEN ExpSeries(r, NDivSmall(NShr(NMul(term, r), FracLimbs), i), i + 1,
                   NAdd(acc, term))
    ELSE <<>>

RECURSIVE ExpMag(_)
ExpMag(y) ==
    IF NLe(NMulSmall(y, 2), NOne)
    THEN ExpSeries(y, NOne, 1, <<>>)
    ELSE LET h == ExpMag(NDivSmall(y, 2))
         IN  NShr(NMul(h, h), FracLimbs)

MathExp(a) ==
    IF IsNaN(a) THEN NaN
    ELSE IF IsInf(a) THEN (IF a.s = 1 THEN a ELSE Fin(1, <<>>))
    ELSE IF a.s = 1 THEN Fin(1, ExpMag(a.m))
    ELSE Fin(1, NDiv(NShl(NOne, FracLimbs), ExpMag(a.m)))

\* the integer a one- or two-limb natural stands for
NToInt(a) == NLimb(a, 1) + NLimb(a, 2) * Base

\* the f low decimal digits of d, leading zeros kept
RECURSIVE PadDigits(_, _)
PadDigits(d, f) ==
    IF f = 0 THEN "" ELSE PadDigits(d \div 10, f - 1) \o ToString(d % 10)

\* Number.prototype.toFixed(f), f >= 1: NaN and the infinities print by
\* name, a finite value rounds to f decimals, ties away from zero
toFixed(a, f) ==
    IF IsNaN(a) THEN "NaN"
    ELSE IF IsInf(a) THEN (IF a.s = 1 THEN "Infinity" ELSE "-Infinity")
    ELSE LET half == Dec(5, f + 1).m
             unit == Dec(1, f).m
             n    == NToInt(NDiv(NAdd(a.m, half), unit))
         IN  (IF a.s = -1 THEN "-" ELSE "")
                 \o ToString(n \div 10^f) \o "." \o PadDigits(n % 10^f, f)

(***************************************************************************)
(* /turn-order: TurnOrderPage.                                             *)
(***************************************************************************)
VARIABLES
    loading,         \* useState(true)
    stats,           \* useState<SeatPositionStat[]>([])
    commanderStats,  \* useState<CommanderSeatStat[]>([])
    selectedSeat     \* useState<number | null>(null): -1 is null

turnOrderVars == <<loading, stats, commanderStats, selectedSeat>>

MaxRows == 5
MaxWins == 1
MaxDraws == 1

RECURSIVE SumInts(_)
SumInts(ws) == IF ws = <<>> THEN 0 ELSE ws[1] + SumInts(Tail(ws))

\* The rows of seat_position_stats for the per-seat win counts ws and d
\* drawn games, ordered by seat_position: a game is won from one seat or
\* drawn.  (win_rate, which only the bars and the raw-data table print, is
\* left out.)
SeatPositionStat(ws, d) ==
    [i \in 1..Len(ws) |->
        [seat_position |-> i - 1,
         total_games   |-> SumInts(ws) + d,
         wins          |-> ws[i],
         losses        |-> SumInts(ws) - ws[i],
         draws         |-> d]]

\* "Seat 1 wins 23.6%, Seat 4 wins 13.2%": the documented data set
DocumentedWins == <<236, 200, 180, 132>>

\* win counts whose Cohen's w is exactly 0.1 and exactly 0.3
BoundaryWins == {<<11, 11, 9, 9>>, <<13, 13, 7, 7>>}

\* up to MaxRows seats that each won no game or MaxWins games, and the
\* data sets above
WinCounts ==
    UNION {[1..n -> {0, MaxWins}] : n \in 0..MaxRows}
        \cup {DocumentedWins} \cup BoundaryWins

\* what the seat_position_stats query resolves to
GlobalResults ==
    {[error |-> TRUE, data |-> <<>>]}
        \cup {[error |-> FALSE, data |-> SeatPositionStat(ws, d)] :
                 ws \in WinCounts, d \in {0, MaxDraws}}

CommanderSeatStat ==
    [commander_id |-> "c1", seat_position |-> 0, games |-> 20]

\* what the commander_seat_stats query resolves to
CommanderResults ==
    {[error |-> TRUE, data |-> <<>>],
     [error |-> FALSE, data |-> <<>>],
     [error |-> FALSE, data |-> <<CommanderSeatStat>>]}

\* (globalResult.data || []).map(stat => ({...stat, draw_rate, win_plus_draw_rate}))
enrichedStats(data) ==
    [i \in 1..Len(data) |->
        [seat_position      |-> data[i].seat_position,
         total_games        |-> data[i].total_games,
         wins               |-> data[i].wins,
         losses             |-> data[i].losses,
         draws              |-> data[i].draws,
         draw_rate          |-> JsDiv(Num(data[i].draws), Num(data[i].total_games)),
         win_plus_draw_rate |-> JsDiv(Num(data[i].wins + data[i].draws),
                                      Num(data[i].total_games))]]

\* useEffect(() => { fetchStats() }, []): both queries have resolved
fetchStats(globalResult, commanderResult) ==
    /\ loading
    /\ stats' = IF globalResult.error THEN stats
                ELSE enrichedStats(globalResult.data)
    /\ commanderStats' = IF commanderResult.error THEN commanderStats
                         ELSE commanderResult.data
    /\ loading' = FALSE
    /\ UNCHANGED selectedSeat

\* onClick={() => setSelectedSeat(selectedSeat === seat ? null : seat)};
\* the buttons exist once loaded and commanderStats.length > 0
clickSeat(seat) ==
    /\ ~loading
    /\ Len(commanderStats) > 0
    /\ selectedSeat' = IF selectedSeat = seat THEN -1 ELSE seat
    /\ UNCHANGED <<loading, stats, commanderStats>>

\* stats.reduce((sum, s) => sum + s.wins, 0)
RECURSIVE totalWinsOf(_)
totalWinsOf(rows) ==
    IF rows = <<>> THEN 0
    ELSE totalWinsOf(SubSeq(rows, 1, Len(rows) - 1)) + rows[Len(rows)].wins

\* const expectedWins = totalWins / 4
expectedWinsOf(total) == JsDiv(total, Num(4))

\* the reduce step with the term subtracted instead of added
chiSquareStep_Subtracting(sum, s, expected) ==
    LET diff == JsSub(Num(s.wins), expected)
    IN  JsSub(sum, JsDiv(JsMul(diff, diff), expected))

\* one step of the reduce: sum + (diff * diff) / expectedWins
chiSquareStep(sum, s, expected) ==
    LET diff == JsSub(Num(s.wins), expected)
    IN  JsAdd(sum, JsDiv(JsMul(diff, diff), expected))

\* stats.reduce((sum, s) => ..., 0)
RECURSIVE chiSquareOf(_, _)
chiSquareOf(rows, expected) ==
    IF rows = <<>> THEN Num(0)
    ELSE chiSquareStep(chiSquareOf(SubSeq(rows, 1, Len(rows) - 1), expected),
                       rows[Len(rows)], expected)

\* Math.sqrt(chiSquare / totalWins)
cohensWOf(chi, total) == MathSqrt(JsDiv(chi, total))

\* the cut points compared with <= instead of <
effectInterpretationOf_InclusiveUpper(w) ==
    IF JsLe(w, Dec(1, 1)) THEN "small"
    ELSE IF JsLe(w, Dec(3, 1)) THEN "medium"
    ELSE "large"

\* cohensW < 0.1 ? "small" : cohensW < 0.3 ? "medium" : "large"
effectInterpretationOf(w) ==
    IF JsLt(w, Dec(1, 1)) THEN "small"
    ELSE IF JsLt(w, Dec(3, 1)) THEN "medium"
    ELSE "large"

\* <span className="font-mono">3</span>
degreesOfFreedom == 3

\* What the component returns for the current state: the placeholder while
\* loading, else the page with its Statistical Significance card.
TurnOrderPage ==
    IF loading THEN [view |-> "loading"]
    ELSE LET totalWins   == Num(totalWinsOf(stats))
             expected    == expectedWinsOf(totalWins)
             chiSquare   == chiSquareOf(stats, expected)
             cohensW     == cohensWOf(chiSquare, totalWins)
         IN  [view                 |-> "page",
              totalWins            |-> totalWins,
              chiSquare            |-> chiSquare,
              chiSquareText        |-> toFixed(chiSquare, 2),
              degreesOfFreedom     |-> degreesOfFreedom,
              cohensW              |-> cohensW,
              cohensWText          |-> toFixed(cohensW, 3),
              effectInterpretation |-> effectInterpretationOf(cohensW),
              result               |-> "Statistically Significant"]

TurnOrderInit ==
    /\ loading = TRUE
    /\ stats = <<>>
    /\ commanderStats = <<>>
    /\ selectedSeat = -1

TurnOrderNext ==
    \/ \E g \in GlobalResults, c \in CommanderResults : fetchStats(g, c)
    \/ \E seat \in 0..3 : clickSeat(seat)

(***************************************************************************)
(* /commanders/[id]: the card-performance p-value badges of                *)
(* CommanderDetailPage.                                                    *)
(***************************************************************************)
VARIABLES
    fetched,          \* getCardPerformance has resolved
    cardPerformance,  \* const cardPerformance: CardPerformance[]
    tableCell,        \* the Win Rate Delta p-value cell of the card table
    performanceRow    \* the PerformanceCardRow of the performance lists

cardVars == <<fetched, cardPerformance, tableCell, performanceRow>>

MaxDelta == 3
MaxStdDev == 2
MaxDeckCount == 5

\* .gte("deck_count", 3)
MinDeckCount == 3

\* A row of card_performance.  win_rate_delta and std_win_rate arrive as
\* decimal strings with four decimals; the model holds the number of
\* ten-thousandths the string denotes.
CardPerformance(delta, std, n) ==
    [card_name      |-> "Card A",
     deck_count     |-> n,
     win_rate_delta |-> delta,
     std_win_rate   |-> std]

\* what the card_performance query resolves to
CardPerformanceResults ==
    {[error |-> TRUE, data |-> <<>>], [error |-> FALSE, data |-> <<>>]}
        \cup {[error |-> FALSE, data |-> <<CardPerformance(delta, std, n)>>] :
                 delta \in -MaxDelta..MaxDelta,
                 std \in 0..MaxStdDev,
                 n \in MinDeckCount..MaxDeckCount}

\* parseFloat of a decimal string with four decimals
parseFloat(str) == Dec(str, 4)

\* the first coefficient with its last digit mistyped
a1_Mistyped == Dec(254829593, 9)

a1 == Dec(254829592, 9)
a2 == Dec(-284496736, 9)
a3 == Dec(1421413741, 9)
a4 == Dec(-1453152027, 9)
a5 == Dec(1061405429, 9)

\* function normalCdf(x: number): number
normalCdf(x) ==
    LET sign == IF JsGe(x, Num(0)) THEN Num(1) ELSE Num(-1)
        absX == MathAbs(x)
        t    == JsDiv(Num(1), JsAdd(Num(1), JsMul(Dec(3275911, 7), absX)))
        poly == JsMul(JsAdd(JsMul(JsAdd(JsMul(JsAdd(JsMul(JsAdd(JsMul(a5, t),
                    a4), t), a3), t), a2), t), a1), t)
        erf  == JsSub(Num(1), JsMul(poly, MathExp(JsMul(JsNeg(absX), absX))))
    IN  JsMul(Dec(5, 1), JsAdd(Num(1), JsMul(sign, erf)))

\* the three-way branch with <= at the first cut
formatPValue_InclusiveCut(p) ==
    IF JsLe(p, Dec(1, 3)) THEN "<0.001"
    ELSE IF JsLt(p, Dec(1, 2)) THEN "<0.01"
    ELSE toFixed(p, 3)

\* function formatPValue(p: number): string
formatPValue(p) ==
    IF JsLt(p, Dec(1, 3)) THEN "<0.001"
    ELSE IF JsLt(p, Dec(1, 2)) THEN "<0.01"
    ELSE toFixed(p, 3)

\* a z-score that is 0 whenever the standard deviation is 0
zScoreOf_ZeroWhenNoSpread(delta, stdDev, deck_count) ==
    IF IsZero(stdDev) THEN Num(0)
    ELSE JsDiv(delta, JsDiv(stdDev, MathSqrt(Num(deck_count))))

\* const zScore = delta / (stdDev / Math.sqrt(deck_count))
zScoreOf(delta, stdDev, deck_count) ==
    JsDiv(delta, JsDiv(stdDev, MathSqrt(Num(deck_count))))

\* the p-value without Math.abs
pValueOf_NoAbs(zScore) ==
    JsMul(Num(2), JsSub(Num(1), normalCdf(zScore)))

\* a one-sided p-value
pValueOf_OneSided(zScore) == JsSub(Num(1), normalCdf(zScore))

\* const pValue = 2 * (1 - normalCdf(Math.abs(zScore)))
pValueOf(zScore) ==
    JsMul(Num(2), JsSub(Num(1), normalCdf(MathAbs(zScore))))

\* The <span> both render sites build from a card_performance row: its
\* class is the highlighted one when pValue < 0.05, its text is
\* p={formatPValue(pValue)}.
PValueBadge(perf) ==
    LET delta  == JsMul(parseFloat(perf.win_rate_delta), Num(100))
        stdDev == JsMul(parseFloat(perf.std_win_rate), Num(100))
        zScore == zScoreOf(delta, stdDev, perf.deck_count)
        pValue == pValueOf(zScore)
    IN  [view        |-> "badge",
         perf        |-> perf,
         pValue      |-> pValue,
         significant |-> JsLt(pValue, Dec(5, 2)),
         text        |-> "p=" \o formatPValue(pValue)]

\* const cardPerformance = await getCardPerformance(id): the rows, or []
\* when the query failed
getCardPerformance(result) ==
    /\ ~fetched
    /\ fetched' = TRUE
    /\ cardPerformance' = IF result.error THEN <<>> ELSE result.data
    /\ UNCHANGED <<tableCell, performanceRow>>

\* The card table row of "Card A": perf = cardPerformanceMap.get(card_name);
\* the cell holds the badge when perf exists, else the dash.
RenderCardTableRow ==
    /\ fetched
    /\ tableCell.view = "none"
    /\ tableCell' = IF cardPerformance = <<>> THEN [view |-> "dash"]
                    ELSE PValueBadge(cardPerformance[1])
    /\ UNCHANGED <<fetched, cardPerformance, performanceRow>>

\* topPerformingCards keeps the rows with parseFloat(win_rate_delta) > 0,
\* underperformingCards those with < 0; each kept row is rendered by
\* PerformanceCardRow.
RenderPerformanceCardRow ==
    /\ fetched
    /\ performanceRow.view = "none"
    /\ cardPerformance # <<>>
    /\ \/ JsGt(parseFloat(cardPerformance[1].win_rate_delta), Num(0))
       \/ JsLt(parseFloat(cardPerformance[1].win_rate_delta), Num(0))
    /\ performanceRow' = PValueBadge(cardPerformance[1])
    /\ UNCHANGED <<fetched, cardPerformance, tableCell>>

CardsInit ==
    /\ fetched = FALSE
    /\ cardPerformance = <<>>
    /\ tableCell = [view |-> "none"]
    /\ performanceRow = [view |-> "none"]

CardsNext ==
    \/ \E r \in CardPerformanceResults : getCardPerformance(r)
    \/ RenderCardTableRow
    \/ RenderPerformanceCardRow

(***************************************************************************)
(* formatPValue on its own: a p-value in, the badge string out.            *)
(***************************************************************************)
VARIABLES
    pValueArg,   \* the argument of the call of formatPValue, NaN before it
    pValueText   \* what the call returned, "" before it has returned

formatVars == <<pValueArg, pValueText>>

MaxPValueSteps == 120

\* p-values on the grid of 0.0001 up to 0.0001 * MaxPValueSteps, and a few
\* near 0.5 and 1.  A grid point ending in 5 is a rounding tie in decimal
\* that a binary64 holds exactly only when it is a multiple of 0.0625; the
\* other ties are left out.
PValueGrid ==
    {k \in (0..MaxPValueSteps) \cup {421, 625, 4996, 5000, 9994, 9996, 10000} :
        k % 10 = 5 => k % 625 = 0 \/ k < 100}

\* a call formatPValue(p) returns
callFormatPValue(p) ==
    /\ pValueText = ""
    /\ pValueArg' = p
    /\ pValueText' = formatPValue(p)

FormatInit ==
    /\ pValueArg = NaN
    /\ pValueText = ""

FormatNext == \E k \in PValueGrid : callFormatPValue(Dec(k, 4))

(***************************************************************************)
(* /survival: the milestone lookups of SurvivalAnalysisPage.               *)
(***************************************************************************)
VARIABLES
    survivalData,     \* the series the lookups were called with
    medianRound,      \* getMedianSurvivalRound(data): <<>> is null
    percentileRound,  \* get75thPercentileRound(data): <<>> is null
    lookedUp          \* the lookups have returned

survivalVars == <<survivalData, medianRound, percentileRound, lookedUp>>

MaxPoints == 3

\* cumulative survival values around the two thresholds, in hundredths
SurvivalLevels == {0, 25, 26, 50, 51, 100}

\* series of up to MaxPoints points whose round numbers run 1, 2, ... in
\* sequence order (sorted ascending) or the other way round; cumulative
\* survival is free to tie, fall or rise
SurvivalSeries ==
    UNION {
        {[i \in 1..n |->
            [round_number        |-> IF ascending THEN i ELSE n + 1 - i,
             cumulative_survival |-> Dec(c[i], 2)]] :
            c \in [1..n -> SurvivalLevels], ascending \in BOOLEAN}
        : n \in 0..MaxPoints}

\* a scan from the end of the array: the last point at or below the
\* threshold, 0 when there is none
RECURSIVE ArrayFind_Last(_, _, _)
ArrayFind_Last(data, threshold, i) ==
    IF Len(data) = 0 \/ i > Len(data) THEN 0
    ELSE IF JsLe(data[Len(data) + 1 - i].cumulative_survival, threshold)
    THEN Len(data) + 1 - i
    ELSE ArrayFind_Last(data, threshold, i + 1)

\* data.find((p) => p.cumulative_survival <= threshold), scanning from
\* index i: the index of the first such point, 0 for undefined
RECURSIVE ArrayFind(_, _, _)
ArrayFind(data, threshold, i) ==
    IF i > Len(data) THEN 0
    ELSE IF JsLe(data[i].cumulative_survival, threshold) THEN i
    ELSE ArrayFind(data, threshold, i + 1)

\* the median lookup with < in place of <=
getMedianSurvivalRound_Strict(data) ==
    LET below == {i \in 1..Len(data) :
                     JsLt(data[i].cumulative_survival, Dec(5, 1))}
    IN  IF below = {} THEN <<>>
        ELSE <<data[CHOOSE i \in below : \A j \in below : i <= j].round_number>>

\* const getMedianSurvivalRound = (data: SurvivalPoint[]): number | null
getMedianSurvivalRound(data) ==
    LET medianPoint == ArrayFind(data, Dec(5, 1), 1)
    IN  IF medianPoint # 0 THEN <<data[medianPoint].round_number>> ELSE <<>>

\* const get75thPercentileRound = (data: SurvivalPoint[]): number | null
get75thPercentileRound(data) ==
    LET point == ArrayFind(data, Dec(25, 2), 1)
    IN  IF point # 0 THEN <<data[point].round_number>> ELSE <<>>

\* both lookups are called with the same series, as the page does with
\* globalSurvival
callSurvivalLookups(data) ==
    /\ ~lookedUp
    /\ lookedUp' = TRUE
    /\ survivalData' = data
    /\ medianRound' = getMedianSurvivalRound(data)
    /\ percentileRound' = get75thPercentileRound(data)

SurvivalInit ==
    /\ survivalData = <<>>
    /\ medianRound = <<>>
    /\ percentileRound = <<>>
    /\ lookedUp = FALSE

SurvivalNext == \E data \in SurvivalSeries : callSurvivalLookups(data)

(***************************************************************************)
(* /cards: the InclusionBar of a card row, which colours the inclusion     *)
(* rate with the colour of its tier.                                       *)
(***************************************************************************)
VARIABLES
    inclusionRate,  \* card.inclusion_rate of the rendered row, in
                    \* ten-thousandths; -1 before any row is rendered
    inclusionBar    \* what InclusionBar returned for it

inclusionVars == <<inclusionRate, inclusionBar>>

MaxPercent == 100

\* inclusion rates at every whole percent up to MaxPercent and next to the
\* four cut points, in ten-thousandths
InclusionRates ==
    {100 * j : j \in 0..MaxPercent}
        \cup {999, 1001, 2999, 3001, 5999, 6001, 7999, 8001}

\* <TierCard tier=... color=... />: the colour of each tier
TierColor ==
    [core      |-> "#22c55e",
     essential |-> "#84cc16",
     common    |-> "#f59e0b",
     flex      |-> "#8b5cf6",
     spice     |-> "#ef4444"]

\* the colour chain with > in place of >=
InclusionBar_Exclusive(rate) ==
    LET percentage == JsMul(rate, Num(100))
        color ==
            IF JsGt(percentage, Num(80)) THEN "#22c55e"
            ELSE IF JsGt(percentage, Num(60)) THEN "#84cc16"
            ELSE IF JsGt(percentage, Num(30)) THEN "#f59e0b"
            ELSE IF JsGt(percentage, Num(10)) THEN "#8b5cf6"
            ELSE "#ef4444"
    IN  [color |-> color, text |-> toFixed(percentage, 1) \o "%"]

\* function InclusionBar({ rate }: { rate: number })
InclusionBar(rate) ==
    LET percentage == JsMul(rate, Num(100))
        color ==
            IF JsGe(percentage, Num(80)) THEN "#22c55e"
            ELSE IF JsGe(percentage, Num(60)) THEN "#84cc16"
            ELSE IF JsGe(percentage, Num(30)) THEN "#f59e0b"
            ELSE IF JsGe(percentage, Num(10)) THEN "#8b5cf6"
            ELSE "#ef4444"
    IN  [color |-> color, text |-> toFixed(percentage, 1) \o "%"]

\* <InclusionBar rate={parseFloat(card.inclusion_rate)} /> for one row
renderInclusionBar(inclusion_rate) ==
    /\ inclusionRate = -1
    /\ inclusionRate' = inclusion_rate
    /\ inclusionBar' = InclusionBar(parseFloat(inclusion_rate))

InclusionInit ==
    /\ inclusionRate = -1
    /\ inclusionBar = [color |-> "", text |-> ""]

InclusionNext == \E r \in InclusionRates : renderInclusionBar(r)

(***************************************************************************)
(* /trap-spice: TrapSpicePage.                                             *)
(***************************************************************************)
VARIABLES
    tsCommanders,         \* useState<Commander[]>([])
    tsSelectedCommander,  \* useState<string>("")
    trapCards,            \* useState<TrapCard[]>([])
    spiceCards,           \* useState<SpiceCard[]>([])
    trapPage,             \* useState(1)
    spicePage,            \* useState(1)
    tsLoading,            \* useState(true)
    usageRows             \* the rows the card_frequencies_by_commander query gave

trapSpiceVars ==
    <<tsCommanders, tsSelectedCommander, trapCards, spiceCards, trapPage,
      spicePage, tsLoading, usageRows>>

MaxTrapCards == 2
MaxTrapDelta == 1
MaxUsageRows == 11

\* const ITEMS_PER_PAGE = 20
ITEMS_PER_PAGE == 20

\* if (existing.length < 10)
MaxTopCommanders == 10

CommanderIds == {"c1", "c2"}

\* what the commander_stats query of the dropdown resolves to
CommanderListResults ==
    {[error |-> TRUE, data |-> <<>>],
     [error |-> FALSE, data |-> <<>>],
     [error |-> FALSE,
      data  |-> <<[commander_id |-> "c1", commander_name |-> "Kinnan",
                   total_entries |-> 12],
                  [commander_id |-> "c2", commander_name |-> "Tymna",
                   total_entries |-> 11]>>]}

\* Rows of trap_cards_report: the i-th row is card "T<i>"; win_rate_delta is
\* a decimal string, held as its number of ten-thousandths.  The page puts
\* no condition on the rows it asks for.
TrapCardNames == [i \in 1..MaxTrapCards |-> "T" \o ToString(i)]

TrapDataResults ==
    {[error |-> TRUE, data |-> <<>>]}
        \cup UNION {
            {[error |-> FALSE,
              data  |-> [i \in 1..n |->
                            [card_name      |-> TrapCardNames[i],
                             win_rate_delta |-> d[i]]]] :
                d \in [1..n -> -MaxTrapDelta..MaxTrapDelta]}
            : n \in 0..MaxTrapCards}

\* rows of spice_cards_report
SpiceDataResults ==
    {[error |-> TRUE, data |-> <<>>],
     [error |-> FALSE, data |-> <<>>],
     [error |-> FALSE,
      data  |-> <<[card_name |-> "S1", win_rate_delta |-> MaxTrapDelta]>>]}

\* card_frequencies_by_commander, in the order of the query (deck_count
\* descending)
UsageTable ==
    <<[card_name |-> "T1", commander_id |-> "c1", deck_count |-> 4],
      [card_name |-> "T2", commander_id |-> "c1", deck_count |-> 3],
      [card_name |-> "T1", commander_id |-> "c2", deck_count |-> 2],
      [card_name |-> "S1", commander_id |-> "c2", deck_count |-> 2],
      [card_name |-> "T2", commander_id |-> "c2", deck_count |-> 1]>>

\* the rows of a sequence at the positions in keep, order kept
RECURSIVE SubSeqAt(_, _, _)
SubSeqAt(rows, keep, i) ==
    IF i > Len(rows) THEN <<>>
    ELSE (IF i \in keep THEN <<rows[i]>> ELSE <<>>) \o SubSeqAt(rows, keep, i + 1)

\* n rows of card "T1" in the order of the query, of commander c1 first and
\* of commander c2 last, followed by a row of card "T2"
LongUsageTable(n) ==
    [k \in 1..n |->
        [card_name    |-> "T1",
         commander_id |-> IF k = 1 THEN "c1"
                          ELSE IF k = n THEN "c2" ELSE "c" \o ToString(k + 1),
         deck_count   |-> n + 2 - k]]
        \o <<[card_name |-> "T2", commander_id |-> "c2", deck_count |-> 1]>>

\* what the card_frequencies_by_commander query resolves to: an error, any
\* part of the table, or a table with about as many rows of a card as the
\* page keeps
UsageResults ==
    {[error |-> TRUE, data |-> <<>>]}
        \cup {[error |-> FALSE, data |-> SubSeqAt(UsageTable, keep, 1)] :
                 keep \in SUBSET (1..Len(UsageTable))}
        \cup {[error |-> FALSE, data |-> LongUsageTable(n)] :
                 n \in (MaxTopCommanders - 1)..MaxUsageRows}

\* data || []
OrEmpty(result) == IF result.error THEN <<>> ELSE result.data

\* the for loop of getCommanderUsageForCards from row i on: usageMap holds
\* <<>> for a card without entry
RECURSIVE usageMapFrom(_, _, _)
usageMapFrom(rows, i, usageMap) ==
    IF i > Len(rows) THEN usageMap
    ELSE LET row      == rows[i]
             existing == usageMap[row.card_name]
         IN  usageMapFrom(rows, i + 1,
                 IF Len(existing) < MaxTopCommanders
                 THEN [usageMap EXCEPT ![row.card_name] =
                          Append(existing,
                                 [commander_id |-> row.commander_id,
                                  deck_count   |-> row.deck_count])]
                 ELSE usageMap)

\* async function getCommanderUsageForCards(cardNames); .in("card_name",
\* cardNames) keeps the rows of the asked cards
getCommanderUsageForCards(cardNames, result) ==
    LET names == {cardNames[i] : i \in 1..Len(cardNames)}
        empty == [c \in names |-> <<>>]
        rows  == SelectSeq(OrEmpty(result), LAMBDA r : r.card_name \in names)
    IN  IF Len(cardNames) = 0 \/ result.error THEN empty
        ELSE usageMapFrom(rows, 1, empty)

\* (data || []).map((card) => ({...card, top_commanders: ... || []}))
withCommanders(cards, commanderUsage) ==
    [i \in 1..Len(cards) |->
        [card_name      |-> cards[i].card_name,
         win_rate_delta |-> cards[i].win_rate_delta,
         top_commanders |-> commanderUsage[cards[i].card_name]]]

\* fetchCommanders of the first effect
tsFetchCommanders(result) ==
    /\ tsCommanders = <<>>
    /\ tsCommanders' = IF result.error THEN tsCommanders ELSE result.data
    /\ UNCHANGED <<tsSelectedCommander, trapCards, spiceCards, trapPage,
                   spicePage, tsLoading, usageRows>>

\* fetchCards of the second effect, from its first await to setLoading(false)
tsFetchCards(trapResult, spiceResult, usageResult) ==
    /\ tsLoading
    /\ LET trapData  == OrEmpty(trapResult)
           spiceData == OrEmpty(spiceResult)
           allCardNames ==
               [i \in 1..Len(trapData) |-> trapData[i].card_name]
                   \o [i \in 1..Len(spiceData) |-> spiceData[i].card_name]
           commanderUsage == getCommanderUsageForCards(allCardNames, usageResult)
       IN  /\ trapCards' = withCommanders(trapData, commanderUsage)
           /\ spiceCards' = withCommanders(spiceData, commanderUsage)
           /\ usageRows' = IF Len(allCardNames) = 0 THEN <<>> ELSE OrEmpty(usageResult)
    /\ trapPage' = 1
    /\ spicePage' = 1
    /\ tsLoading' = FALSE
    /\ UNCHANGED <<tsCommanders, tsSelectedCommander>>

\* onChange of the commander select, and Clear Filter for ""
tsSelectCommander(id) ==
    /\ \/ id = "" /\ tsSelectedCommander # ""
       \/ \E i \in 1..Len(tsCommanders) : tsCommanders[i].commander_id = id
    /\ tsSelectedCommander' = id
    /\ UNCHANGED <<tsCommanders, trapCards, spiceCards, trapPage, spicePage,
                   tsLoading, usageRows>>

\* a test that looks at the first top commander only
usedBy_FirstOnly(card, id) ==
    card.top_commanders # <<>> /\ card.top_commanders[1].commander_id = id

\* card.top_commanders?.some((c) => c.commander_id === selectedCommander)
usedBy(card, id) ==
    \E i \in 1..Len(card.top_commanders) : card.top_commanders[i].commander_id = id

\* selectedCommander ? cards.filter(...) : cards
filteredCards(cards) ==
    IF tsSelectedCommander # ""
    THEN SelectSeq(cards, LAMBDA card : usedBy(card, tsSelectedCommander))
    ELSE cards

filteredTrapCards == filteredCards(trapCards)

filteredSpiceCards == filteredCards(spiceCards)

\* filteredTrapCards.slice(0, trapPage * ITEMS_PER_PAGE)
paginatedTrapCards ==
    SubSeq(filteredTrapCards, 1,
           IF Len(filteredTrapCards) < trapPage * ITEMS_PER_PAGE
           THEN Len(filteredTrapCards) ELSE trapPage * ITEMS_PER_PAGE)

TrapSpiceInit ==
    /\ tsCommanders = <<>>
    /\ tsSelectedCommander = ""
    /\ trapCards = <<>>
    /\ spiceCards = <<>>
    /\ trapPage = 1
    /\ spicePage = 1
    /\ tsLoading = TRUE
    /\ usageRows = <<>>

TrapSpiceNext ==
    \/ \E r \in CommanderListResults : tsFetchCommanders(r)
    \/ \E t \in TrapDataResults, sp \in SpiceDataResults, u \in UsageResults :
           tsFetchCards(t, sp, u)
    \/ \E id \in CommanderIds \cup {""} : tsSelectCommander(id)

(***************************************************************************)
(* Input adaptation: the same computations fed a field as a native number  *)
(* or as the decimal string denoting it.  A JavaScript value is            *)
(* [t |-> "number", n |-> n] or [t |-> "string", digits |-> <<d1, ...>>].  *)
(***************************************************************************)
VARIABLES
    adaptCall,    \* the call made: what was computed, from which values
    adaptResult   \* what it returned

adaptVars == <<adaptCall, adaptResult>>

MaxEncodedWins == 2

\* String(n) of a natural number, as its decimal digits
RECURSIVE DigitsOf(_)
DigitsOf(n) == IF n < 10 THEN <<n>> ELSE DigitsOf(n \div 10) \o <<n % 10>>

NumberValue(n) == [t |-> "number", n |-> n]

\* the decimal string denoting n
StringValue(n) == [t |-> "string", digits |-> DigitsOf(n)]

\* ToString of a value
StringOf(v) == IF v.t = "string" THEN v.digits ELSE DigitsOf(v.n)

\* a + b: addition of two numbers, concatenation once either is a string
plus(a, b) ==
    IF a.t = "number" /\ b.t = "number" THEN NumberValue(a.n + b.n)
    ELSE [t |-> "string", digits |-> StringOf(a) \o StringOf(b)]

\* the number a sequence of decimal digits denotes
RECURSIVE NumberOfDigits(_, _, _)
NumberOfDigits(digits, i, acc) ==
    IF i > Len(digits) THEN acc
    ELSE NumberOfDigits(digits, i + 1, JsAdd(JsMul(acc, Num(10)), Num(digits[i])))

\* ToNumber of a value, as applied by /, - and Math.sqrt
ToNumber(v) ==
    IF v.t = "number" THEN Num(v.n) ELSE NumberOfDigits(v.digits, 1, Num(0))

\* the natural number a short digit string denotes
RECURSIVE NatOfDigits(_, _, _)
NatOfDigits(digits, i, acc) ==
    IF i > Len(digits) THEN acc
    ELSE NatOfDigits(digits, i + 1, 10 * acc + digits[i])

\* stats.reduce((sum, s) => sum + s.wins, 0) over values
RECURSIVE totalWinsOfValues(_)
totalWinsOfValues(wins) ==
    IF wins = <<>> THEN NumberValue(0)
    ELSE plus(totalWinsOfValues(SubSeq(wins, 1, Len(wins) - 1)), wins[Len(wins)])

\* lines 83..96 of the turn-order page for rows whose wins are the given
\* values: totalWins keeps the type + gives it; /, - and Math.sqrt convert
seatFairnessOfValues(wins) ==
    LET totalWins == totalWinsOfValues(wins)
        expected  == expectedWinsOf(ToNumber(totalWins))
        rows      == [i \in 1..Len(wins) |->
                         [wins |-> IF wins[i].t = "number" THEN wins[i].n
                                   ELSE NatOfDigits(wins[i].digits, 1, 0)]]
        chiSquare == chiSquareOf(rows, expected)
        cohensW   == cohensWOf(chiSquare, ToNumber(totalWins))
    IN  [totalWins            |-> ToNumber(totalWins),
         chiSquare            |-> chiSquare,
         cohensW              |-> cohensW,
         effectInterpretation |-> effectInterpretationOf(cohensW)]

\* function toNumber(val: number | string | null | undefined): number; a
\* string argument is a decimal with four decimals, held as its number of
\* ten-thousandths
toNumber(val) ==
    IF val.t = "null" THEN Num(0)
    ELSE IF val.t = "string" THEN parseFloat(val.tenThousandths)
    ELSE val.v

\* the seat statistics are computed from four win counts, all numbers or
\* all strings
adaptSeatFairness(ws, encoding) ==
    /\ adaptCall.fn = "none"
    /\ adaptCall' = [fn |-> "seatFairness", wins |-> ws, encoding |-> encoding]
    /\ adaptResult' =
           seatFairnessOfValues(
               [i \in 1..Len(ws) |->
                   IF encoding = "string" THEN StringValue(ws[i])
                   ELSE NumberValue(ws[i])])

\* toNumber is called with null, a number or the string denoting it
adaptToNumber(k, encoding) ==
    /\ adaptCall.fn = "none"
    /\ adaptCall' = [fn |-> "toNumber", tenThousandths |-> k, encoding |-> encoding]
    /\ adaptResult' =
           toNumber(IF encoding = "null" THEN [t |-> "null"]
                    ELSE IF encoding = "string"
                    THEN [t |-> "string", tenThousandths |-> k]
                    ELSE [t |-> "number", v |-> Dec(k, 4)])

AdaptInit ==
    /\ adaptCall = [fn |-> "none"]
    /\ adaptResult = NaN

AdaptNext ==
    \/ \E ws \in [1..4 -> 0..MaxEncodedWins], e \in {"number", "string"} :
           adaptSeatFairness(ws, e)
    \/ \E k \in -MaxDelta..MaxDelta, e \in {"null", "number", "string"} :
           adaptToNumber(k, e)

(***************************************************************************)
(* /commanders (CommandersPage) and / (Home): the lists of commanders.     *)
(***************************************************************************)
VARIABLES
    commanders,      \* CommandersPage: const commanders = await getCommanders()
    commandersPage,  \* what CommandersPage rendered
    homeStats,       \* Home: what getStats() returned
    homePage         \* what Home rendered

listVars == <<commanders, commandersPage, homeStats, homePage>>

MaxCommanders == 2
MaxEntries == 7

\* .gt("total_entries", 5)
EntriesFloor == 5

\* stands for a commander_name that is null
NullName == "<null>"

CommanderNames ==
    {"Kinnan", "Unknown Commander", "unknown commander", "UNKNOWN COMMANDER",
     NullName}

\* String.prototype.toLowerCase on the names above
toLowerCase(name) ==
    CASE name = "Kinnan" -> "kinnan"
      [] name = "Unknown Commander" -> "unknown commander"
      [] name = "unknown commander" -> "unknown commander"
      [] name = "UNKNOWN COMMANDER" -> "unknown commander"

\* a row of commander_stats; the rates are decimal strings held as their
\* number of ten-thousandths
CommanderStat(name, entries, rate) ==
    [commander_name         |-> name,
     total_entries          |-> entries,
     total_wins             |-> entries - EntriesFloor,
     total_losses           |-> 2,
     total_draws            |-> 1,
     avg_win_rate           |-> rate,
     conversion_rate_top_16 |-> 1000]

CommanderStats ==
    {CommanderStat(name, entries, rate) :
        name \in CommanderNames,
        entries \in (EntriesFloor + 1)..MaxEntries,
        rate \in {2000, 3000}}

\* what the commander_stats query of CommandersPage resolves to
CommanderStatsResults ==
    {[error |-> TRUE, data |-> <<>>]}
        \cup {[error |-> FALSE, data |-> rows] :
                 rows \in UNION {[1..n -> CommanderStats] : n \in 0..MaxCommanders}}

\* what a top-list query of Home resolves to: rows of which the name matters
TopCommanderResults ==
    {[error |-> TRUE, data |-> <<>>]}
        \cup {[error |-> FALSE,
               data  |-> [i \in 1..Len(names) |->
                             [commander_name |-> names[i], total_entries |-> 31]]] :
                 names \in UNION {[1..n -> CommanderNames] : n \in 0..MaxCommanders}}

\* the filter with a case-sensitive comparison
notUnknownCommander_CaseSensitive(commander) ==
    commander.commander_name # "Unknown Commander"

\* (commander) => commander.commander_name?.toLowerCase() !== "unknown commander"
notUnknownCommander(commander) ==
    (IF commander.commander_name = NullName THEN "undefined"
     ELSE toLowerCase(commander.commander_name)) # "unknown commander"

\* rows.reduce((sum, c) => sum + c.total_entries, 0)
RECURSIVE totalEntriesOf(_)
totalEntriesOf(rows) ==
    IF rows = <<>> THEN 0
    ELSE totalEntriesOf(SubSeq(rows, 1, Len(rows) - 1)) + rows[Len(rows)].total_entries

\* rows.reduce((sum, c) => sum + value(c) * c.total_entries, 0), where
\* values[i] is value(rows[i])
RECURSIVE weightedSumOf(_, _)
weightedSumOf(rows, values) ==
    IF rows = <<>> THEN Num(0)
    ELSE JsAdd(weightedSumOf(SubSeq(rows, 1, Len(rows) - 1), values),
               JsMul(values[Len(rows)], Num(rows[Len(rows)].total_entries)))

\* Math.max(n, 1)
AtLeastOne(n) == IF n > 1 THEN n ELSE 1

\* (c.total_wins * 5 + c.total_draws * 1) / Math.max(wins + losses + draws, 1)
pointsPerGame(c) ==
    JsDiv(Num(c.total_wins * 5 + c.total_draws * 1),
          Num(AtLeastOne(c.total_wins + c.total_losses + c.total_draws)))

\* the body of CommandersPage after the fetch
CommandersPageOf(rows) ==
    LET filteredCommanders == SelectSeq(rows, notUnknownCommander)
        totalEntries       == totalEntriesOf(filteredCommanders)
        divisor            == Num(AtLeastOne(totalEntries))
    IN  [view               |-> "page",
         table              |-> filteredCommanders,
         totalCommanders    |-> Len(filteredCommanders),
         totalEntries       |-> totalEntries,
         weightedAvgWinRate |->
             JsDiv(weightedSumOf(filteredCommanders,
                       [i \in 1..Len(filteredCommanders) |->
                           parseFloat(filteredCommanders[i].avg_win_rate)]),
                   divisor),
         weightedAvgTop16   |->
             JsDiv(weightedSumOf(filteredCommanders,
                       [i \in 1..Len(filteredCommanders) |->
                           parseFloat(filteredCommanders[i].conversion_rate_top_16)]),
                   divisor),
         weightedAvgPoints  |->
             JsDiv(weightedSumOf(filteredCommanders,
                       [i \in 1..Len(filteredCommanders) |->
                           pointsPerGame(filteredCommanders[i])]),
                   divisor)]

\* CommandersPage: getCommanders() resolves (an error gives []) and the page
\* is rendered.  A request is for one route: /commanders or /.
renderCommandersPage(result) ==
    /\ commandersPage.view = "none"
    /\ homePage.view = "none"
    /\ commanders' = OrEmpty(result)
    /\ commandersPage' = CommandersPageOf(OrEmpty(result))
    /\ UNCHANGED <<homeStats, homePage>>

\* Home: getStats() resolves (data ?? [], or the catch branch) and the page
\* is rendered
renderHome(topCommandersResult, topWinRateResult, thrown) ==
    /\ homePage.view = "none"
    /\ commandersPage.view = "none"
    /\ LET topCommanders == IF thrown THEN <<>> ELSE OrEmpty(topCommandersResult)
           topWinRate    == IF thrown THEN <<>> ELSE OrEmpty(topWinRateResult)
       IN  /\ homeStats' = [topCommanders |-> topCommanders,
                            topWinRate    |-> topWinRate]
           /\ homePage' =
                  [view       |-> "page",
                   mostPlayed |-> SelectSeq(topCommanders, notUnknownCommander),
                   topWinRate |-> SelectSeq(topWinRate, notUnknownCommander)]
    /\ UNCHANGED <<commanders, commandersPage>>

ListInit ==
    /\ commanders = <<>>
    /\ commandersPage = [view |-> "none"]
    /\ homeStats = [topCommanders |-> <<>>, topWinRate |-> <<>>]
    /\ homePage = [view |-> "none"]

ListNext ==
    \/ \E r \in CommanderStatsResults : renderCommandersPage(r)
    \/ \E t \in TopCommanderResults, w \in TopCommanderResults, thrown \in BOOLEAN :
           renderHome(t, w, thrown)

(***************************************************************************)
(* lib/schemas/api-contracts: the survival schemas and the two validation  *)
(* helpers.  A JSON value is [kind |-> "null"], [kind |-> "object",        *)
(* fields |-> f] or [kind |-> "array", items |-> s]; a field value is      *)
(* [t |-> "int", n |-> n], [t |-> "decimal", tenThousandths |-> k] (both   *)
(* typeof "number"), [t |-> "string", tenThousandths |-> k] (a decimal     *)
(* string) or [t |-> "null"].                                              *)
(***************************************************************************)
VARIABLES
    contractCall,   \* the schema and the data both helpers were called with
    validated,      \* outcome of validateResponse: thrown, or the value
    safeValidated   \* outcome of safeValidateResponse: null, or the value

contractVars == <<contractCall, validated, safeValidated>>

MaxResponseRows == 2

IntField(n) == [t |-> "int", n |-> n]

DecimalField(k) == [t |-> "decimal", tenThousandths |-> k]

StringField(k) == [t |-> "string", tenThousandths |-> k]

NullField == [t |-> "null"]

\* a row with the columns get_survival_curve returns
SurvivalRow(round, atRisk, rate, cumulative) ==
    [round_number        |-> round,
     players_at_risk     |-> atRisk,
     players_survived    |-> IntField(3),
     survival_rate       |-> rate,
     cumulative_survival |-> cumulative]

\* rows a response can hold: the returned columns with numeric or string
\* rates, with further columns, with the columns the contract test names,
\* and with values the schema refuses
ResponseRows ==
    {[kind |-> "object", fields |-> f] : f \in
        {SurvivalRow(IntField(1), IntField(4), DecimalField(7500), DecimalField(7500)),
         SurvivalRow(IntField(2), IntField(4), StringField(7500), StringField(5000)),
         [round_number         |-> IntField(1),
          players_at_risk      |-> IntField(4),
          players_survived     |-> IntField(3),
          survival_rate        |-> DecimalField(7500),
          cumulative_survival  |-> DecimalField(7500),
          survival_probability |-> DecimalField(7500),
          players_remaining    |-> IntField(3)],
         [round_number         |-> IntField(1),
          survival_probability |-> DecimalField(7500),
          players_remaining    |-> IntField(3)],
         SurvivalRow(IntField(0), IntField(4), DecimalField(7500), DecimalField(7500)),
         SurvivalRow(IntField(1), DecimalField(45000), DecimalField(7500), DecimalField(7500)),
         SurvivalRow(IntField(1), IntField(4), DecimalField(7500), NullField)}}

\* the data a helper can be handed: null, one row, or an array of rows
ResponseData ==
    {[kind |-> "null"]} \cup ResponseRows
        \cup {[kind |-> "array", items |-> rows] :
                 rows \in UNION {[1..n -> ResponseRows] : n \in 0..MaxResponseRows}}

ContractSchemas == {"SurvivalPointSchema", "SurvivalCurveResponseSchema"}

\* z.number().int().positive() / .nonnegative() on the field named key
zInt(fields, key, least) ==
    /\ key \in DOMAIN fields
    /\ fields[key].t = "int"
    /\ fields[key].n >= least

\* z.union([z.number(), z.string()]) on the field named key
zNumberOrString(fields, key) ==
    /\ key \in DOMAIN fields
    /\ fields[key].t \in {"int", "decimal", "string"}

\* .transform((v) => typeof v === "string" ? parseFloat(v) : v)
transformRate(v) ==
    IF v.t = "string" THEN parseFloat(v.tenThousandths)
    ELSE IF v.t = "int" THEN Num(v.n)
    ELSE Dec(v.tenThousandths, 4)

\* SurvivalPointSchema.safeParse(value): unknown keys are stripped
SurvivalPointSchema(value) ==
    IF /\ value.kind = "object"
       /\ zInt(value.fields, "round_number", 1)
       /\ zInt(value.fields, "players_at_risk", 0)
       /\ zInt(value.fields, "players_survived", 0)
       /\ zNumberOrString(value.fields, "survival_rate")
       /\ zNumberOrString(value.fields, "cumulative_survival")
    THEN [success |-> TRUE,
          data    |-> [round_number        |-> value.fields.round_number.n,
                       players_at_risk     |-> value.fields.players_at_risk.n,
                       players_survived    |-> value.fields.players_survived.n,
                       survival_rate       |-> transformRate(value.fields.survival_rate),
                       cumulative_survival |->
                           transformRate(value.fields.cumulative_survival)]]
    ELSE [success |-> FALSE]

\* SurvivalCurveResponseSchema = z.array(SurvivalPointSchema)
SurvivalCurveResponseSchema(value) ==
    IF /\ value.kind = "array"
       /\ \A i \in 1..Len(value.items) : SurvivalPointSchema(value.items[i]).success
    THEN [success |-> TRUE,
          data    |-> [i \in 1..Len(value.items) |->
                          SurvivalPointSchema(value.items[i]).data]]
    ELSE [success |-> FALSE]

\* schema.safeParse(data)
safeParse(schema, data) ==
    IF schema = "SurvivalPointSchema" THEN SurvivalPointSchema(data)
    ELSE SurvivalCurveResponseSchema(data)

\* export function validateResponse<T>(schema, data, context): T
validateResponse(schema, data) ==
    LET result == safeParse(schema, data)
    IN  IF ~result.success THEN [threw |-> TRUE]
        ELSE [threw |-> FALSE, value |-> result.data]

\* a helper that hands the data back unparsed when validation fails
safeValidateResponse_PassThrough(schema, data) ==
    LET result == safeParse(schema, data)
    IN  IF ~result.success THEN [isNull |-> FALSE, value |-> data]
        ELSE [isNull |-> FALSE, value |-> result.data]

\* export function safeValidateResponse<T>(schema, data, context): T | null
safeValidateResponse(schema, data) ==
    LET result == safeParse(schema, data)
    IN  IF ~result.success THEN [isNull |-> TRUE]
        ELSE [isNull |-> FALSE, value |-> result.data]

\* both helpers are called with the same schema and data
callValidators(schema, data) ==
    /\ contractCall.schema = "none"
    /\ contractCall' = [schema |-> schema, data |-> data]
    /\ validated' = validateResponse(schema, data)
    /\ safeValidated' = safeValidateResponse(schema, data)

ContractInit ==
    /\ contractCall = [schema |-> "none"]
    /\ validated = [threw |-> FALSE]
    /\ safeValidated = [isNull |-> TRUE]

ContractNext ==
    \E schema \in ContractSchemas, data \in ResponseData : callValidators(schema, data)

(***************************************************************************)
(* commanders/[id]: getRecentFinishes.  A row of tournament_entries is     *)
(* [id, decklist_url, tournaments]; the embedded tournaments value is an   *)
(* object, an array or null, and start_date is a day number.               *)
(***************************************************************************)
VARIABLES
    finishesCall,    \* the query result getRecentFinishes worked on
    recentFinishes   \* what getRecentFinishes returned

finishVars == <<finishesCall, recentFinishes>>

MaxEntryRows == 3
MaxStartDate == 2
MaxOtherRows == 9

\* .slice(0, 8)
RecentFinishLimit == 8

NullUrl == "<null>"

DecklistUrls == {NullUrl, "https://decks/a"}

Tournaments ==
    {[kind |-> "null"], [kind |-> "array", items |-> <<>>]}
        \cup {[kind |-> "object", start_date |-> d] : d \in 1..MaxStartDate}
        \cup {[kind |-> "array", items |-> <<[kind |-> "object", start_date |-> d]>>] :
                 d \in 1..MaxStartDate}

\* the i-th row of the result: entry ids are distinct
EntryRow(i, url, tournaments) ==
    [id |-> "entry-" \o ToString(i), decklist_url |-> url, tournaments |-> tournaments]

\* n further rows after row number from, each with its own key and an
\* older tournament
OtherRows(from, n) ==
    [i \in 1..n |-> EntryRow(from + i, NullUrl, [kind |-> "object", start_date |-> 0])]

\* const tournament = Array.isArray(row.tournaments) ? row.tournaments[0]
\* : row.tournaments; <<>> stands for a missing tournament
tournamentOf(row) ==
    IF row.tournaments.kind = "array"
    THEN IF row.tournaments.items = <<>> THEN <<>> ELSE <<row.tournaments.items[1]>>
    ELSE IF row.tournaments.kind = "null" THEN <<>> ELSE <<row.tournaments>>

\* .map((row) => ...).filter((row) => row !== null) from row i on
RECURSIVE mapFinishes(_, _, _)
mapFinishes(data, i, acc) ==
    IF i > Len(data) THEN acc
    ELSE LET tournament == tournamentOf(data[i])
         IN  mapFinishes(data, i + 1,
                 IF tournament = <<>> THEN acc
                 ELSE Append(acc, [id           |-> data[i].id,
                                   decklist_url |-> data[i].decklist_url,
                                   tournament   |-> tournament[1]]))

\* the place of finish in the sorted prefix: behind every finish that is
\* not older (Array.prototype.sort is stable)
RECURSIVE placeOf(_, _, _)
placeOf(sorted, finish, i) ==
    IF i > Len(sorted) THEN i
    ELSE IF sorted[i].tournament.start_date < finish.tournament.start_date THEN i
    ELSE placeOf(sorted, finish, i + 1)

\* finishes.sort((a, b) => dateB - dateA) from finish i on
RECURSIVE sortFinishes(_, _, _)
sortFinishes(finishes, i, sorted) ==
    IF i > Len(finishes) THEN sorted
    ELSE LET at == placeOf(sorted, finishes[i], 1)
         IN  sortFinishes(finishes, i + 1,
                 SubSeq(sorted, 1, at - 1) \o <<finishes[i]>>
                     \o SubSeq(sorted, at, Len(sorted)))

\* const key = finish.decklist_url ?? finish.id
finishKey(finish) ==
    IF finish.decklist_url = NullUrl THEN finish.id ELSE finish.decklist_url

\* for (const finish of finishes) if (!grouped.has(key)) grouped.set(key,
\* finish); Array.from(grouped.values()) keeps the insertion order
RECURSIVE groupFinishes(_, _, _)
groupFinishes(finishes, i, grouped) ==
    IF i > Len(finishes) THEN grouped
    ELSE groupFinishes(finishes, i + 1,
             IF \E j \in 1..Len(grouped) : finishKey(grouped[j]) = finishKey(finishes[i])
             THEN grouped
             ELSE Append(grouped, finishes[i]))

\* .slice(0, n)
sliceFrom0(list, n) == SubSeq(list, 1, IF Len(list) < n THEN Len(list) ELSE n)

\* the finishes in the order the query returned them
getRecentFinishes_Unsorted(result) ==
    IF result.error THEN <<>>
    ELSE sliceFrom0(groupFinishes(mapFinishes(result.data, 1, <<>>), 1, <<>>),
                    RecentFinishLimit)

\* async function getRecentFinishes(commanderId: string)
getRecentFinishes(result) ==
    IF result.error THEN <<>>
    ELSE sliceFrom0(
             groupFinishes(
                 sortFinishes(mapFinishes(result.data, 1, <<>>), 1, <<>>), 1, <<>>),
             RecentFinishLimit)

\* a query result: n rows of the given shapes, followed by others further
\* rows
EntryRowResult(n, urls, tournaments, others) ==
    [error |-> FALSE,
     data  |-> [i \in 1..n |-> EntryRow(i, urls[i], tournaments[i])]
                   \o OtherRows(n, others)]

callGetRecentFinishes(result) ==
    /\ ~finishesCall.done
    /\ finishesCall' = [done |-> TRUE, result |-> result]
    /\ recentFinishes' = getRecentFinishes(result)

FinishInit ==
    /\ finishesCall = [done |-> FALSE]
    /\ recentFinishes = <<>>

\* the query fails, or returns up to MaxEntryRows rows of every shape
\* followed by none or by enough further rows to fill the list
FinishNext ==
    \/ callGetRecentFinishes([error |-> TRUE, data |-> <<>>])
    \/ \E n \in 0..MaxEntryRows :
           \E urls \in [1..n -> DecklistUrls], tournaments \in [1..n -> Tournaments],
              others \in {0} \cup (RecentFinishLimit - 1)..MaxOtherRows :
               callGetRecentFinishes(EntryRowResult(n, urls, tournaments, others))

(***************************************************************************)
(* commanders/[id]: CommanderDetailPage.  The commander is looked up       *)
(* first; the five secondary fetches then run side by side and the page is *)
(* rendered when the last of them has returned.                            *)
(***************************************************************************)
VARIABLES
    detailLookup,     \* the result of the commander_stats query, once made
    detailResponses,  \* the query result each secondary fetch received
    detailFetched,    \* what each secondary fetch returned
    detailPending,    \* the secondary fetches still awaited by Promise.all
    detailPage        \* what the route produced

detailVars ==
    <<detailLookup, detailResponses, detailFetched, detailPending, detailPage>>

MaxFetchedRows == 1

SecondaryFetches ==
    {"getCardReport", "getCardPerformance", "getNotablePlayers",
     "getCommanderMatchups", "getRecentFinishes"}

\* .single(): an error, no row, or the row
CommanderLookupResults ==
    {[error |-> TRUE, data |-> <<>>],
     [error |-> FALSE, data |-> <<>>],
     [error |-> FALSE, data |-> <<[commander_name |-> "Kinnan"]>>]}

\* the result of the query of a secondary fetch: an error, or rows
SecondaryResults(name) ==
    {[error |-> TRUE, data |-> <<>>]}
        \cup {[error |-> FALSE,
               data  |-> IF name = "getRecentFinishes"
                         THEN [i \in 1..n |->
                                  EntryRow(i, NullUrl, [kind |-> "object", start_date |-> 1])]
                         ELSE [i \in 1..n |-> [row |-> i]]] :
                 n \in 0..MaxFetchedRows}

\* a lookup that gives up on an error only and takes a missing row as found
getCommanderDetails_ErrorOnly(result) ==
    IF result.error THEN <<>> ELSE <<[commander_name |-> "Kinnan"]>>

\* async function getCommanderDetails(id): <<>> stands for null
getCommanderDetails(result) ==
    IF result.error \/ result.data = <<>> THEN <<>> ELSE result.data

\* getCardReport, getCardPerformance, getNotablePlayers, getCommanderMatchups:
\* if (error) return []; return data
listOrEmpty(result) == IF result.error THEN <<>> ELSE result.data

\* what the secondary fetch called name returns on the query result
secondaryFetch(name, result) ==
    IF name = "getRecentFinishes" THEN getRecentFinishes(result) ELSE listOrEmpty(result)

\* the JSX of the page over the five lists
DetailPageOf(commander, lists) ==
    [view              |-> "page",
     commander_name    |-> commander.commander_name,
     cardReport        |-> lists["getCardReport"],
     cardPerformance   |-> lists["getCardPerformance"],
     notablePlayersTab |-> Len(lists["getNotablePlayers"]) > 0,
     notablePlayers    |-> lists["getNotablePlayers"],
     matchupsTab       |-> Len(lists["getCommanderMatchups"]) > 0,
     matchups          |-> lists["getCommanderMatchups"],
     recentFinishes    |-> lists["getRecentFinishes"]]

\* const commander = await getCommanderDetails(id); if (!commander)
\* notFound(); otherwise the five fetches are issued
lookupCommander(result) ==
    /\ ~detailLookup.done
    /\ detailLookup' = [done |-> TRUE, result |-> result,
                        commander |-> getCommanderDetails(result)]
    /\ IF getCommanderDetails(result) = <<>>
       THEN /\ detailPage' = [view |-> "notFound"]
            /\ UNCHANGED detailPending
       ELSE /\ detailPending' = SecondaryFetches
            /\ UNCHANGED detailPage
    /\ UNCHANGED <<detailResponses, detailFetched>>

\* one secondary fetch returns; with the last one Promise.all resolves and
\* the page is rendered
resolveSecondaryFetch(name, result) ==
    /\ name \in detailPending
    /\ detailResponses' = [detailResponses EXCEPT ![name] = <<result>>]
    /\ detailFetched' = [detailFetched EXCEPT ![name] = secondaryFetch(name, result)]
    /\ detailPending' = detailPending \ {name}
    /\ detailPage' = IF detailPending' = {}
                     THEN DetailPageOf(detailLookup.commander[1], detailFetched')
                     ELSE detailPage
    /\ UNCHANGED detailLookup

DetailInit ==
    /\ detailLookup = [done |-> FALSE]
    /\ detailResponses = [name \in SecondaryFetches |-> <<>>]
    /\ detailFetched = [name \in SecondaryFetches |-> <<>>]
    /\ detailPending = {}
    /\ detailPage = [view |-> "none"]

DetailNext ==
    \/ \E result \in CommanderLookupResults : lookupCommander(result)
    \/ \E name \in SecondaryFetches :
           \E result \in SecondaryResults(name) : resolveSecondaryFetch(name, result)

(***************************************************************************)
(* /survival: the commander selection.  A render whose selectedCommander   *)
(* differs from the one before is followed by a pass of the two effects    *)
(* that depend on it; the pass is over before the next click is handled.   *)
(* A get_survival_curve request stays in flight until its response is      *)
(* handled, and responses are handled in any order.                        *)
(***************************************************************************)
VARIABLES
    mounted,            \* the page has been rendered for the first time
    searchParams,       \* searchParams.get("commander"), "" when absent
    selectedCommander,  \* useState<string>("")
    viewMode,           \* useState("seat")
    commanderSurvival,  \* useState<SurvivalPoint[]>([])
    effectsDue,         \* a render is waiting for its effects to run
    requests,           \* the get_survival_curve requests in flight
    issued,             \* how many requests have been issued
    latestRequest       \* the request issued last, <<>> before the first

survivalPageVars ==
    <<mounted, searchParams, selectedCommander, viewMode, commanderSurvival,
      effectsDue, requests, issued, latestRequest>>

MaxRequests == 4

SurvivalCommanders == {"A", "B"}

ViewModes == {"global", "seat", "commander"}

\* what the server answers to a request for the curve of commander c
CurveResults(c) ==
    {[error |-> TRUE, data |-> <<>>],
     [error |-> FALSE, data |-> <<[commander |-> c, round_number |-> 1]>>]}

\* an effect that forces the parameter only onto an empty selection
searchParamsEffect_OnlyWhenEmpty(commanderParam, selected, mode) ==
    IF commanderParam # "" /\ selected = ""
    THEN [selectedCommander |-> commanderParam, viewMode |-> "commander"]
    ELSE [selectedCommander |-> selected, viewMode |-> mode]

\* useEffect(() => { if (commanderParam && commanderParam !==
\* selectedCommander) { setSelectedCommander(commanderParam);
\* setViewMode("commander") } }, [searchParams, selectedCommander])
searchParamsEffect(commanderParam, selected, mode) ==
    IF commanderParam # "" /\ commanderParam # selected
    THEN [selectedCommander |-> commanderParam, viewMode |-> "commander"]
    ELSE [selectedCommander |-> selected, viewMode |-> mode]

\* the first render of the page for a URL
mountSurvivalPage(commanderParam) ==
    /\ ~mounted
    /\ mounted' = TRUE
    /\ searchParams' = commanderParam
    /\ effectsDue' = TRUE
    /\ UNCHANGED <<selectedCommander, viewMode, commanderSurvival, requests, issued,
                   latestRequest>>

\* The effects of one render: the searchParams effect, then
\* fetchCommanderSurvival with the selectedCommander of that render, up to
\* its await.  The server's answer is fixed when the request is issued.
runSurvivalEffects(result) ==
    /\ effectsDue
    /\ LET after == searchParamsEffect(searchParams, selectedCommander, viewMode)
       IN  /\ selectedCommander' = after.selectedCommander
           /\ viewMode' = after.viewMode
           /\ effectsDue' = (after.selectedCommander # selectedCommander)
    /\ IF selectedCommander = ""
       THEN /\ commanderSurvival' = <<>>
            /\ result = [error |-> TRUE, data |-> <<>>]
            /\ UNCHANGED <<requests, issued, latestRequest>>
       ELSE /\ result \in CurveResults(selectedCommander)
            /\ issued' = issued + 1
            /\ requests' = requests \cup
                   {[seq |-> issued + 1, commander |-> selectedCommander,
                     result |-> result]}
            /\ latestRequest' = <<[seq |-> issued + 1, commander |-> selectedCommander,
                                   result |-> result]>>
            /\ UNCHANGED commanderSurvival
    /\ UNCHANGED <<mounted, searchParams>>

\* the rest of fetchCommanderSurvival once the response of request is there
handleCurveResponse(request) ==
    /\ request \in requests
    /\ requests' = requests \ {request}
    /\ commanderSurvival' = OrEmpty(request.result)
    /\ UNCHANGED <<mounted, searchParams, selectedCommander, viewMode, effectsDue,
                   issued, latestRequest>>

\* onChange of the select and onClick of Clear (value ""): both are shown
\* only in the commander view, Clear only with a commander selected
setSelectedCommander(value) ==
    /\ mounted
    /\ ~effectsDue
    /\ viewMode = "commander"
    /\ value = "" => selectedCommander # ""
    /\ issued + 2 <= MaxRequests
    /\ selectedCommander' = value
    /\ effectsDue' = (value # selectedCommander)
    /\ UNCHANGED <<mounted, searchParams, viewMode, commanderSurvival, requests,
                   issued, latestRequest>>

\* onClick of the three view buttons
setViewMode(mode) ==
    /\ mounted
    /\ ~effectsDue
    /\ viewMode' = mode
    /\ UNCHANGED <<mounted, searchParams, selectedCommander, commanderSurvival,
                   effectsDue, requests, issued, latestRequest>>

SurvivalPageInit ==
    /\ mounted = FALSE
    /\ searchParams = ""
    /\ selectedCommander = ""
    /\ viewMode = "seat"
    /\ commanderSurvival = <<>>
    /\ effectsDue = FALSE
    /\ requests = {}
    /\ issued = 0
    /\ latestRequest = <<>>

SurvivalPageNext ==
    \/ \E commanderParam \in {""} \cup SurvivalCommanders :
           mountSurvivalPage(commanderParam)
    \/ \E result \in {[error |-> TRUE, data |-> <<>>]}
                         \cup CurveResults(selectedCommander) :
           runSurvivalEffects(result)
    \/ \E request \in requests : handleCurveResponse(request)
    \/ \E value \in {""} \cup SurvivalCommanders : setSelectedCommander(value)
    \/ \E mode \in ViewModes : setViewMode(mode)

(***************************************************************************)
(* CommandersTable: the sortable table of the commanders page.             *)
(***************************************************************************)
VARIABLES
    tableMounted,      \* the table has been rendered
    tableCommanders,   \* the commanders prop
    sortKey,           \* useState<SortKey>("entries")
    sortDirection,     \* useState<SortDirection>("desc")
    sortedCommanders,  \* the rows in the order they are shown
    lastSortClick      \* the last header click and whether it hit the active column

tableVars ==
    <<tableMounted, tableCommanders, sortKey, sortDirection, sortedCommanders, lastSortClick>>

MaxTableRows == 3
MaxTableStat == 2

SortKeys == {"commander", "entries", "tournaments", "winRate", "top16", "topCut"}

\* names in the order of localeCompare
TableNames == <<"Kinnan", "Rograkh", "Tymna">>

\* a row of the prop; the rates are decimal strings with four decimals,
\* held as ten-thousandths
TableRow(x, y) ==
    [commander_name          |-> TableNames[x],
     total_entries           |-> EntriesFloor + y,
     tournaments_played      |-> x,
     avg_win_rate            |-> 1000 * y,
     conversion_rate_top_16  |-> 1250 * x,
     conversion_rate_top_cut |-> 1000 * (MaxTableStat + 1 - y)]

TableRows == {TableRow(x, y) : x \in 1..MaxTableStat, y \in 1..MaxTableStat}

\* a.commander_name.localeCompare(b.commander_name)
localeCompare(a, b) ==
    LET at(name) == CHOOSE i \in 1..Len(TableNames) : TableNames[i] = name
    IN  IF at(a) < at(b) THEN -1 ELSE IF at(a) > at(b) THEN 1 ELSE 0

\* function compareValues(a, b, key)
compareValues(a, b, key) ==
    CASE key = "commander" -> Num(localeCompare(a.commander_name, b.commander_name))
      [] key = "entries" -> Num(a.total_entries - b.total_entries)
      [] key = "tournaments" -> Num(a.tournaments_played - b.tournaments_played)
      [] key = "winRate" -> JsSub(parseFloat(a.avg_win_rate), parseFloat(b.avg_win_rate))
      [] key = "top16" -> JsSub(parseFloat(a.conversion_rate_top_16),
                                parseFloat(b.conversion_rate_top_16))
      [] key = "topCut" -> JsSub(parseFloat(a.conversion_rate_top_cut),
                                 parseFloat(b.conversion_rate_top_cut))
      [] OTHER -> Num(0)

\* the place of row in the sorted prefix: before the first row that compares
\* greater (Array.prototype.sort is stable)
RECURSIVE sortPlace(_, _, _, _)
sortPlace(sorted, row, key, i) ==
    IF i > Len(sorted) THEN i
    ELSE IF JsGt(compareValues(sorted[i], row, key), Num(0)) THEN i
    ELSE sortPlace(sorted, row, key, i + 1)

\* [...commanders].sort((a, b) => compareValues(a, b, sortKey)) from row i on
RECURSIVE sortRows(_, _, _, _)
sortRows(rows, key, i, sorted) ==
    IF i > Len(rows) THEN sorted
    ELSE LET at == sortPlace(sorted, rows[i], key, 1)
         IN  sortRows(rows, key, i + 1,
                 SubSeq(sorted, 1, at - 1) \o <<rows[i]>>
                     \o SubSeq(sorted, at, Len(sorted)))

\* sorted.reverse()
reverse(list) == [i \in 1..Len(list) |-> list[Len(list) + 1 - i]]

\* const sortedCommanders = useMemo(...)
sortedCommandersOf(rows, key, direction) ==
    LET sorted == sortRows(rows, key, 1, <<>>)
    IN  IF direction = "asc" THEN sorted ELSE reverse(sorted)

\* a handler that flips the direction on a click on the active column
handleSort_Toggle(nextKey, key, direction) ==
    [sortDirection |-> IF nextKey = key /\ direction = "desc" THEN "asc" ELSE "desc",
     sortKey       |-> nextKey]

\* function handleSort(nextKey) { setSortDirection("desc");
\* setSortKey(nextKey) }
handleSort(nextKey, key, direction) ==
    [sortDirection |-> "desc", sortKey |-> nextKey]

\* the table is rendered for the commanders prop
mountTable(rows) ==
    /\ ~tableMounted
    /\ tableMounted' = TRUE
    /\ tableCommanders' = rows
    /\ sortedCommanders' = sortedCommandersOf(rows, sortKey, sortDirection)
    /\ UNCHANGED <<sortKey, sortDirection, lastSortClick>>

\* onClick of the SortButton of column nextKey, and the render after it
clickSortButton(nextKey) ==
    /\ tableMounted
    /\ LET after == handleSort(nextKey, sortKey, sortDirection)
       IN  /\ sortKey' = after.sortKey
           /\ sortDirection' = after.sortDirection
           /\ sortedCommanders' =
                  sortedCommandersOf(tableCommanders, after.sortKey, after.sortDirection)
    /\ lastSortClick' = [key |-> nextKey, active |-> nextKey = sortKey]
    /\ UNCHANGED <<tableMounted, tableCommanders>>

TableInit ==
    /\ tableMounted = FALSE
    /\ tableCommanders = <<>>
    /\ sortKey = "entries"
    /\ sortDirection = "desc"
    /\ sortedCommanders = <<>>
    /\ lastSortClick = [key |-> "none", active |-> FALSE]

TableNext ==
    \/ \E n \in 0..MaxTableRows : \E rows \in [1..n -> TableRows] : mountTable(rows)
    \/ \E nextKey \in SortKeys : clickSortButton(nextKey)

(***************************************************************************)
(* Pagination, under a parent whose onPageChange sets currentPage to the   *)
(* page it is called with.  An entry of the page list is [kind |-> "page", *)
(* page |-> i] or [kind |-> "..."].                                        *)
(***************************************************************************)
VARIABLES
    totalPages,      \* the totalPages prop, 0 before the component is mounted
    currentPage,     \* the currentPage prop
    pagination,      \* what the component rendered
    lastPageClick    \* the button clicked last

paginationVars == <<totalPages, currentPage, pagination, lastPageClick>>

MaxTotalPages == 10

\* const delta = 2
PageDelta == 2

PageEntry(i) == [kind |-> "page", page |-> i]

EllipsisEntry == [kind |-> "..."]

\* a page list without the window around the current page
getVisiblePages_EndsOnly(total, current, i, pages) ==
    <<PageEntry(1), EllipsisEntry, PageEntry(total)>>

\* const getVisiblePages = () => ...: the for loop from i on
RECURSIVE getVisiblePages(_, _, _, _)
getVisiblePages(total, current, i, pages) ==
    IF i > total THEN pages
    ELSE getVisiblePages(total, current, i + 1,
             IF \/ i = 1
                \/ i = total
                \/ (i >= current - PageDelta /\ i <= current + PageDelta)
             THEN Append(pages, PageEntry(i))
             ELSE IF pages = <<>> \/ pages[Len(pages)] # EllipsisEntry
                  THEN Append(pages, EllipsisEntry)
                  ELSE pages)

\* export function Pagination(props): null for a single page
Pagination(total, current) ==
    IF total <= 1 THEN [view |-> "null"]
    ELSE [view             |-> "pagination",
          previousDisabled |-> current = 1,
          pages            |-> getVisiblePages(total, current, 1, <<>>),
          nextDisabled     |-> current = total]

\* the parent renders the component on some page of total pages
mountPagination(total, current) ==
    /\ totalPages = 0
    /\ totalPages' = total
    /\ currentPage' = current
    /\ pagination' = Pagination(total, current)
    /\ UNCHANGED lastPageClick

\* onPageChange(page) in the parent, and the render after it
onPageChange(page, button) ==
    /\ currentPage' = page
    /\ pagination' = Pagination(totalPages, page)
    /\ lastPageClick' = button
    /\ UNCHANGED totalPages

\* onClick of Previous: a disabled button takes no click
clickPrevious ==
    /\ pagination.view = "pagination"
    /\ ~pagination.previousDisabled
    /\ onPageChange(currentPage - 1, "Previous")

\* onClick of Next
clickNext ==
    /\ pagination.view = "pagination"
    /\ ~pagination.nextDisabled
    /\ onPageChange(currentPage + 1, "Next")

\* onClick of the i-th entry of the page list, a page button
clickPage(i) ==
    /\ pagination.view = "pagination"
    /\ i \in 1..Len(pagination.pages)
    /\ pagination.pages[i].kind = "page"
    /\ onPageChange(pagination.pages[i].page, "page")

PaginationInit ==
    /\ totalPages = 0
    /\ currentPage = 0
    /\ pagination = [view |-> "none"]
    /\ lastPageClick = "none"

PaginationNext ==
    \/ \E total \in 2..MaxTotalPages : \E current \in 1..total :
           mountPagination(total, current)
    \/ clickPrevious
    \/ clickNext
    \/ \E i \in 1..MaxTotalPages : clickPage(i)

(***************************************************************************)
(* The loading flag of /survival, /turn-order, /cards and /trap-spice: the *)
(* fetch function of the mount effect of each page, step by step from one  *)
(* await to the next.  A result is an error or a number of rows.           *)
(***************************************************************************)
VARIABLES
    pageLoading,    \* the loading state of each page, useState(true)
    pageStep,       \* where the fetch function of each page stands
    pagePending,    \* the requests of each page that have not resolved
    pageErrors,     \* the requests of each page that resolved with an error
    pageCardNames   \* how many card names the fetch function has collected

loadingVars == <<pageLoading, pageStep, pagePending, pageErrors, pageCardNames>>

MaxResultRows == 1

LoadingPages == {"survival", "turn-order", "cards", "trap-spice"}

QueryResults ==
    {[error |-> TRUE, rows |-> 0]}
        \cup {[error |-> FALSE, rows |-> n] : n \in 0..MaxResultRows}

\* (data || []).length
rowsOf(result) == IF result.error THEN 0 ELSE result.rows

\* the fetch function up to its first await
fetchStart(page) ==
    CASE page = "survival" ->
             [loading |-> TRUE, step |-> "awaitAll",
              pending |-> {"get_survival_curve", "survival_curves_by_seat"}]
      [] page = "turn-order" ->
             [loading |-> pageLoading[page], step |-> "awaitAll",
              pending |-> {"seat_position_stats", "commander_seat_stats"}]
      [] page = "cards" ->
             [loading |-> TRUE, step |-> "awaitCards",
              pending |-> {"card_frequencies_global"}]
      [] page = "trap-spice" ->
             [loading |-> TRUE, step |-> "awaitTrap", pending |-> {"trap_cards_report"}]

\* the end of each fetch function: setLoading(false)
fetchDone == [loading |-> FALSE, step |-> "done", pending |-> {}]

\* getCommanderUsageForCards(names): no request for no names
awaitUsage(names) ==
    IF names = 0 THEN fetchDone
    ELSE [loading |-> TRUE, step |-> "awaitUsage",
          pending |-> {"card_frequencies_by_commander"}]

\* an error branch that returns without setLoading(false)
cardsAfterQuery_ErrorReturns(result) ==
    IF result.error THEN [loading |-> TRUE, step |-> "done", pending |-> {}]
    ELSE awaitUsage(result.rows)

\* CardsPage fetchCards after its query: if (error) { setLoading(false);
\* return }, else the usage of the card names is fetched
cardsAfterQuery(result) ==
    IF result.error THEN fetchDone ELSE awaitUsage(result.rows)

\* the fetch function of page from the await at step on, the awaited
\* requests having resolved, the last of them with result
fetchAfter(page, step, names, result) ==
    CASE step = "awaitAll" -> fetchDone
      [] step = "awaitCards" -> cardsAfterQuery(result)
      [] step = "awaitTrap" ->
             [loading |-> TRUE, step |-> "awaitSpice", pending |-> {"spice_cards_report"}]
      [] step = "awaitSpice" -> awaitUsage(names + rowsOf(result))
      [] step = "awaitUsage" -> fetchDone

\* the mount effect of page calls its fetch function
runFetchEffect(page) ==
    /\ pageStep[page] = "effect"
    /\ LET next == fetchStart(page)
       IN  /\ pageLoading' = [pageLoading EXCEPT ![page] = next.loading]
           /\ pageStep' = [pageStep EXCEPT ![page] = next.step]
           /\ pagePending' = [pagePending EXCEPT ![page] = next.pending]
    /\ UNCHANGED <<pageErrors, pageCardNames>>

\* a request of page resolves with result; the fetch function goes on when
\* nothing it awaits is pending
resolveRequest(page, name, result) ==
    /\ name \in pagePending[page]
    /\ pageErrors' = [pageErrors EXCEPT
                         ![page] = IF result.error THEN @ \cup {name} ELSE @]
    /\ pageCardNames' = [pageCardNames EXCEPT
                            ![page] = IF pageStep[page] \in {"awaitTrap", "awaitSpice"}
                                      THEN @ + rowsOf(result) ELSE @]
    /\ IF pagePending[page] = {name}
       THEN LET next == fetchAfter(page, pageStep[page], pageCardNames[page], result)
            IN  /\ pageLoading' = [pageLoading EXCEPT ![page] = next.loading]
                /\ pageStep' = [pageStep EXCEPT ![page] = next.step]
                /\ pagePending' = [pagePending EXCEPT ![page] = next.pending]
       ELSE /\ pagePending' = [pagePending EXCEPT ![page] = @ \ {name}]
            /\ UNCHANGED <<pageLoading, pageStep>>

LoadingInit ==
    /\ pageLoading = [page \in LoadingPages |-> TRUE]
    /\ pageStep = [page \in LoadingPages |-> "effect"]
    /\ pagePending = [page \in LoadingPages |-> {}]
    /\ pageErrors = [page \in LoadingPages |-> {}]
    /\ pageCardNames = [page \in LoadingPages |-> 0]

LoadingNext ==
    \/ \E page \in LoadingPages : runFetchEffect(page)
    \/ \E page \in LoadingPages :
           \E name \in pagePending[page], result \in QueryResults :
               resolveRequest(page, name, result)

(***************************************************************************)
(* The pages are separate routes and the helpers separate calls; each      *)
(* specification runs one of them and leaves the rest of the state alone.  *)
(***************************************************************************)
vars ==
    <<turnOrderVars, cardVars, formatVars, survivalVars, inclusionVars,
      trapSpiceVars, adaptVars, listVars, contractVars, finishVars,
      detailVars, survivalPageVars, tableVars, paginationVars, loadingVars>>

Init ==
    /\ TurnOrderInit
    /\ CardsInit
    /\ FormatInit
    /\ SurvivalInit
    /\ InclusionInit
    /\ TrapSpiceInit
    /\ AdaptInit
    /\ ListInit
    /\ ContractInit
    /\ FinishInit
    /\ DetailInit
    /\ SurvivalPageInit
    /\ TableInit
    /\ PaginationInit
    /\ LoadingInit

Spec ==
    Init /\ [][TurnOrderNext /\ UNCHANGED <<cardVars, formatVars, survivalVars, inclusionVars,
            trapSpiceVars, adaptVars, listVars, contractVars, finishVars,
            detailVars, survivalPageVars, tableVars, paginationVars,
            loadingVars>>]_vars

SpecCards ==
    Init /\ [][CardsNext /\ UNCHANGED <<turnOrderVars, formatVars, survivalVars, inclusionVars,
            trapSpiceVars, adaptVars, listVars, contractVars, finishVars,
            detailVars, survivalPageVars, tableVars, paginationVars,
            loadingVars>>]_vars

SpecFormat ==
    Init /\ [][FormatNext /\ UNCHANGED <<turnOrderVars, cardVars, survivalVars, inclusionVars,
            trapSpiceVars, adaptVars, listVars, contractVars, finishVars,
            detailVars, survivalPageVars, tableVars, paginationVars,
            loadingVars>>]_vars

SpecSurvival ==
    Init /\ [][SurvivalNext /\ UNCHANGED <<turnOrderVars, cardVars, formatVars, inclusionVars,
            trapSpiceVars, adaptVars, listVars, contractVars, finishVars,
            detailVars, survivalPageVars, tableVars, paginationVars,
            loadingVars>>]_vars

SpecInclusion ==
    Init /\ [][InclusionNext /\ UNCHANGED <<turnOrderVars, cardVars, formatVars, survivalVars,
            trapSpiceVars, adaptVars, listVars, contractVars, finishVars,
            detailVars, survivalPageVars, tableVars, paginationVars,
            loadingVars>>]_vars

SpecTrapSpice ==
    Init /\ [][TrapSpiceNext /\ UNCHANGED <<turnOrderVars, cardVars, formatVars, survivalVars,
            inclusionVars, adaptVars, listVars, contractVars, finishVars,
            detailVars, survivalPageVars, tableVars, paginationVars,
            loadingVars>>]_vars

SpecAdapt ==
    Init /\ [][AdaptNext /\ UNCHANGED <<turnOrderVars, cardVars, formatVars, survivalVars,
            inclusionVars, trapSpiceVars, listVars, contractVars,
            finishVars, detailVars, survivalPageVars, tableVars,
            paginationVars, loadingVars>>]_vars

SpecLists ==
    Init /\ [][ListNext /\ UNCHANGED <<turnOrderVars, cardVars, formatVars, survivalVars,
            inclusionVars, trapSpiceVars, adaptVars, contractVars,
            finishVars, detailVars, survivalPageVars, tableVars,
            paginationVars, loadingVars>>]_vars

SpecContracts ==
    Init /\ [][ContractNext /\ UNCHANGED <<turnOrderVars, cardVars, formatVars, survivalVars,
            inclusionVars, trapSpiceVars, adaptVars, listVars, finishVars,
            detailVars, survivalPageVars, tableVars, paginationVars,
            loadingVars>>]_vars

SpecFinishes ==
    Init /\ [][FinishNext /\ UNCHANGED <<turnOrderVars, cardVars, formatVars, survivalVars,
            inclusionVars, trapSpiceVars, adaptVars, listVars,
            contractVars, detailVars, survivalPageVars, tableVars,
            paginationVars, loadingVars>>]_vars

SpecDetail ==
    Init /\ [][DetailNext /\ UNCHANGED <<turnOrderVars, cardVars, formatVars, survivalVars,
            inclusionVars, trapSpiceVars, adaptVars, listVars,
            contractVars, finishVars, survivalPageVars, tableVars,
            paginationVars, loadingVars>>]_vars

SpecSurvivalPage ==
    Init /\ [][SurvivalPageNext /\ UNCHANGED <<turnOrderVars, cardVars, formatVars, survivalVars,
            inclusionVars, trapSpiceVars, adaptVars, listVars,
            contractVars, finishVars, detailVars, tableVars,
            paginationVars, loadingVars>>]_vars

SpecTable ==
    Init /\ [][TableNext /\ UNCHANGED <<turnOrderVars, cardVars, formatVars, survivalVars,
            inclusionVars, trapSpiceVars, adaptVars, listVars,
            contractVars, finishVars, detailVars, survivalPageVars,
            paginationVars, loadingVars>>]_vars

SpecPagination ==
    Init /\ [][PaginationNext /\ UNCHANGED <<turnOrderVars, cardVars, formatVars, survivalVars,
            inclusionVars, trapSpiceVars, adaptVars, listVars,
            contractVars, finishVars, detailVars, survivalPageVars,
            tableVars, loadingVars>>]_vars

\* the effects run and every issued request resolves
SpecLoading ==
    /\ Init
    /\ [][LoadingNext /\ UNCHANGED <<turnOrderVars, cardVars, formatVars, survivalVars,
            inclusionVars, trapSpiceVars, adaptVars, listVars,
            contractVars, finishVars, detailVars, survivalPageVars,
            tableVars, paginationVars>>]_vars
    /\ WF_vars(LoadingNext /\ UNCHANGED <<turnOrderVars, cardVars, formatVars, survivalVars,
            inclusionVars, trapSpiceVars, adaptVars, listVars,
            contractVars, finishVars, detailVars, survivalPageVars,
            tableVars, paginationVars>>)

(***************************************************************************)
(* Properties of the seat-fairness card of /turn-order.                    *)
(***************************************************************************)
\* the wins column of the fetched rows
SeatWins == [i \in 1..Len(stats) |-> stats[i].wins]

\* C1: for the seat win counts 236, 200, 180, 132 the page shows the
\* effect-size label "large".
C1_DocumentedWinsAreLarge ==
    (~loading /\ SeatWins = DocumentedWins)
        => TurnOrderPage.effectInterpretation = "large"

\* C2: when the total number of wins is zero (the query failed, returned
\* no rows, or every seat has 0 wins) the page shows a defined error, or
\* else neither chi-square nor Cohen's w is NaN or infinite.
C2_ZeroTotalWinsIsGuarded ==
    (~loading /\ totalWinsOf(stats) = 0)
        => LET page == TurnOrderPage
           IN  \/ page.view = "error"
               \/ IsFinite(page.chiSquare) /\ IsFinite(page.cohensW)

\* C3: with any number of seat rows other than 4 the page rejects the input
\* and shows no chi-square, Cohen's w or effect-size label.
C3_OtherRowCountsRejected ==
    (~loading /\ Len(stats) # 4) => TurnOrderPage.view # "page"

\* C4: the label shown is a step function of Cohen's w: for every w >= 0 it
\* is "small" exactly when w < 0.1, "medium" exactly when 0.1 <= w < 0.3 and
\* "large" exactly when w >= 0.3 (so 0.1 is medium and 0.3 is large).
C4_EffectLabelIsStepFunction ==
    ~loading =>
        LET page  == TurnOrderPage
            w     == page.cohensW
            label == page.effectInterpretation
        IN  JsGe(w, Num(0)) =>
                /\ label \in {"small", "medium", "large"}
                /\ label = "small" <=> JsLt(w, Dec(1, 1))
                /\ label = "medium" <=> (JsGe(w, Dec(1, 1)) /\ JsLt(w, Dec(3, 1)))
                /\ label = "large" <=> JsGe(w, Dec(3, 1))

\* a loaded page whose Cohen's w is exactly 0.1, labelled medium
C4_Witness ==
    /\ ~loading
    /\ TurnOrderPage.cohensW = Dec(1, 1)
    /\ TurnOrderPage.effectInterpretation = "medium"

\* C5: for exactly 4 seat rows with non-negative win counts and total wins
\* > 0, chi-square >= 0, Cohen's w >= 0 and the degrees of freedom shown
\* are 3.
C5_ValidInputStatistics ==
    (/\ ~loading
     /\ Len(stats) = 4
     /\ \A i \in 1..4 : stats[i].wins >= 0
     /\ totalWinsOf(stats) > 0)
        => LET page == TurnOrderPage
           IN  /\ JsGe(page.chiSquare, Num(0))
               /\ JsGe(page.cohensW, Num(0))
               /\ page.degreesOfFreedom = 3

\* a loaded page of 4 rows with unequal win counts
C5_Witness ==
    /\ ~loading
    /\ Len(stats) = 4
    /\ totalWinsOf(stats) > 0
    /\ JsGt(TurnOrderPage.chiSquare, Num(0))

(***************************************************************************)
(* Properties of the p-value badges of /commanders/[id].                   *)
(***************************************************************************)
\* the badges rendered so far, at either site
Badges == {c \in {tableCell, performanceRow} : c.view = "badge"}

\* the row with the sign of its delta flipped
Mirrored(perf) ==
    [perf EXCEPT !.win_rate_delta = -perf.win_rate_delta]

\* C6: a card whose delta and standard deviation are both zero gets the
\* p-value 1; neither the p-value nor the formatted string is NaN.
C6_ZeroDeltaZeroStdIsOne ==
    \A b \in Badges :
        (b.perf.win_rate_delta = 0 /\ b.perf.std_win_rate = 0)
            => /\ b.pValue = Num(1)
               /\ b.text # "p=NaN"

\* C7: a card with nonzero delta and zero standard deviation gets a p-value
\* of exactly 0, at both render sites.
C7_ZeroStdNonzeroDeltaIsZero ==
    \A b \in Badges :
        (b.perf.win_rate_delta # 0 /\ b.perf.std_win_rate = 0
            /\ b.perf.deck_count >= 1)
            => b.pValue = Num(0)

\* both sites have rendered a card with nonzero delta and zero deviation
C7_Witness ==
    /\ tableCell.view = "badge"
    /\ performanceRow.view = "badge"
    /\ performanceRow.perf.win_rate_delta # 0
    /\ performanceRow.perf.std_win_rate = 0

\* C8 as stated: a card with zero delta and standard deviation > 0 gets a
\* p-value of exactly 1.0.
C8_ZeroDeltaIsExactlyOne ==
    \A b \in Badges :
        (b.perf.win_rate_delta = 0 /\ b.perf.std_win_rate > 0)
            => b.pValue = Num(1)

\* C8: a card with zero delta and standard deviation > 0 gets a p-value
\* strictly below 1 and within 2 * 10^-9 of it (the five coefficients sum
\* to 0.999999999); the badge is not highlighted and reads p=1.000.
C8_ZeroDeltaIsJustBelowOne ==
    \A b \in Badges :
        (b.perf.win_rate_delta = 0 /\ b.perf.std_win_rate > 0)
            => /\ JsLt(b.pValue, Num(1))
               /\ JsGe(b.pValue, Dec(999999998, 9))
               /\ ~b.significant
               /\ b.text = "p=1.000"

\* the card table has rendered a card with zero delta and deviation > 0
C8_Witness ==
    /\ tableCell.view = "badge"
    /\ tableCell.perf.win_rate_delta = 0
    /\ tableCell.perf.std_win_rate > 0

\* C9: for every delta and every standard deviation > 0 the p-value lies in
\* [0, 1].
C9_PValueInUnitInterval ==
    \A b \in Badges :
        (b.perf.std_win_rate > 0 /\ b.perf.deck_count >= 1)
            => JsGe(b.pValue, Num(0)) /\ JsLe(b.pValue, Num(1))

\* PerformanceCardRow has rendered an underperforming card with deviation
\* > 0 whose p-value is highlighted
C9_Witness ==
    /\ performanceRow.view = "badge"
    /\ performanceRow.perf.win_rate_delta < 0
    /\ performanceRow.perf.std_win_rate > 0
    /\ performanceRow.significant

\* C10: for standard deviation > 0, the badge of a card with delta d has the
\* p-value, the highlight and the text of the badge of the same card with
\* delta -d.
C10_PValueSymmetricInDelta ==
    \A b \in Badges :
        (b.perf.std_win_rate > 0 /\ b.perf.deck_count > 0)
            => LET m == PValueBadge(Mirrored(b.perf))
               IN  /\ m.pValue = b.pValue
                   /\ m.significant = b.significant
                   /\ m.text = b.text

\* both sites have rendered a card with negative delta and deviation > 0
\* whose p-value is neither 0 nor rounded to 1.000
C10_Witness ==
    /\ tableCell.view = "badge"
    /\ performanceRow.view = "badge"
    /\ performanceRow.perf.win_rate_delta < 0
    /\ performanceRow.perf.std_win_rate > 0
    /\ performanceRow.text \notin {"p=1.000", "p=<0.001"}

(***************************************************************************)
(* Properties of formatPValue.                                             *)
(***************************************************************************)
\* n thousandths written with exactly three decimals
ThreeDecimals(n) ==
    ToString(n \div 1000) \o "." \o ToString((n \div 100) % 10)
        \o ToString((n \div 10) % 10) \o ToString(n % 10)

\* C11: for p in [0, 1] formatPValue returns "<0.001" when p < 0.001,
\* "<0.01" when 0.001 <= p < 0.01, and otherwise p rounded to exactly three
\* decimals.
C11_FormatPValueBands ==
    pValueText # "" =>
        \E k \in PValueGrid :
            /\ pValueArg = Dec(k, 4)
            /\ k < 10 => pValueText = "<0.001"
            /\ (10 <= k /\ k < 100) => pValueText = "<0.01"
            /\ k >= 100 => pValueText = ThreeDecimals((k + 5) \div 10)

\* formatPValue(0.0421) has returned "0.042"
C11_Witness ==
    /\ pValueArg = Dec(421, 4)
    /\ pValueText = "0.042"

(***************************************************************************)
(* Properties of the Result line of /turn-order.                           *)
(***************************************************************************)
\* C12: the page reports "Statistically Significant" only when chi-square
\* exceeds the critical value 7.815.
C12_SignificantOnlyAboveCritical ==
    (~loading /\ TurnOrderPage.result = "Statistically Significant")
        => JsGt(TurnOrderPage.chiSquare, Dec(7815, 3))

(***************************************************************************)
(* Properties of the survival lookups.                                     *)
(***************************************************************************)
\* the series is sorted ascending by round
SortedByRound(data) ==
    \A i, j \in 1..Len(data) :
        i < j => data[i].round_number < data[j].round_number

\* the round numbers of the points at or below the threshold
RoundsAtMost(data, threshold) ==
    {data[i].round_number :
        i \in {j \in 1..Len(data) :
                  JsLe(data[j].cumulative_survival, threshold)}}

\* <<the least element>> of a set of rounds, <<>> for the empty set
LeastRound(rounds) ==
    IF rounds = {} THEN <<>>
    ELSE <<CHOOSE r \in rounds : \A q \in rounds : r <= q>>

\* C13: for a series sorted ascending by round the median lookup returns
\* the smallest round whose cumulative survival is <= 0.5 and the percentile
\* lookup the smallest round whose cumulative survival is <= 0.25; each
\* returns null when no point qualifies, the empty series included.
C13_LookupsReturnSmallestRound ==
    (lookedUp /\ SortedByRound(survivalData)) =>
        /\ medianRound = LeastRound(RoundsAtMost(survivalData, Dec(5, 1)))
        /\ percentileRound = LeastRound(RoundsAtMost(survivalData, Dec(25, 2)))

\* a sorted series that reaches exactly 0.5 at round 2 and never 0.25
C13_Witness ==
    /\ lookedUp
    /\ SortedByRound(survivalData)
    /\ Len(survivalData) = 3
    /\ survivalData[2].cumulative_survival = Dec(5, 1)
    /\ medianRound = <<2>>
    /\ percentileRound = <<>>

\* C14: for any series, monotone or not, each lookup returns the round of
\* the first point in sequence order at or below its threshold, and null
\* exactly when there is no such point.
C14_LookupsReturnFirstMatch ==
    lookedUp =>
        \A q \in {<<medianRound, Dec(5, 1)>>, <<percentileRound, Dec(25, 2)>>} :
            LET hits == {i \in 1..Len(survivalData) :
                            JsLe(survivalData[i].cumulative_survival, q[2])}
            IN  /\ q[1] = <<>> <=> hits = {}
                /\ hits # {} =>
                       \E i \in hits :
                           /\ \A j \in hits : i <= j
                           /\ q[1] = <<survivalData[i].round_number>>

\* a series that falls below 0.5, rises above it and falls again, with
\* round numbers descending: the first match is not the smallest round
C14_Witness ==
    /\ lookedUp
    /\ Len(survivalData) = 3
    /\ ~SortedByRound(survivalData)
    /\ JsLe(survivalData[1].cumulative_survival, Dec(5, 1))
    /\ JsGt(survivalData[2].cumulative_survival, Dec(5, 1))
    /\ JsLe(survivalData[3].cumulative_survival, Dec(5, 1))
    /\ medianRound = <<3>>

(***************************************************************************)
(* Properties of the inclusion-rate tiers.                                 *)
(***************************************************************************)
\* the tier whose colour the bar has
TierOfBar == CHOOSE t \in DOMAIN TierColor : TierColor[t] = inclusionBar.color

\* C15: the bar of a rate in [0, 1] has the colour of exactly one tier: core
\* for rate >= 0.80, essential for 0.60 <= rate < 0.80, common for
\* 0.30 <= rate < 0.60, flex for 0.10 <= rate < 0.30, spice below 0.10.
C15_TierBands ==
    (inclusionRate >= 0 /\ inclusionRate <= 10000) =>
        /\ \E t \in DOMAIN TierColor : TierColor[t] = inclusionBar.color
        /\ TierOfBar = "core" <=> inclusionRate >= 8000
        /\ TierOfBar = "essential" <=> (6000 <= inclusionRate /\ inclusionRate < 8000)
        /\ TierOfBar = "common" <=> (3000 <= inclusionRate /\ inclusionRate < 6000)
        /\ TierOfBar = "flex" <=> (1000 <= inclusionRate /\ inclusionRate < 3000)
        /\ TierOfBar = "spice" <=> inclusionRate < 1000

\* the bar of the rate 0.80 has been rendered in the core colour
C15_Witness ==
    /\ inclusionRate = 8000
    /\ inclusionBar.color = TierColor.core
    /\ inclusionBar.text = "80.0%"

(***************************************************************************)
(* Properties of the trap list of /trap-spice.                             *)
(***************************************************************************)
\* C16: every card listed as a trap, with or without a commander filter,
\* has a negative win-rate delta.
C16_TrapsAreBelowBaseline ==
    ~tsLoading =>
        \A i \in 1..Len(paginatedTrapCards) :
            JsLt(parseFloat(paginatedTrapCards[i].win_rate_delta), Num(0))

(***************************************************************************)
(* Properties of input adaptation.                                         *)
(***************************************************************************)
\* C17: a statistic is the same whether its numeric inputs arrive as native
\* numbers or as the decimal strings denoting them: the seat statistics
\* computed from four win counts, and toNumber of a value.
C17_SameResultForStringsAndNumbers ==
    /\ adaptCall.fn = "seatFairness" =>
           adaptResult =
               seatFairnessOfValues(
                   [i \in 1..4 |-> NumberValue(adaptCall.wins[i])])
    /\ (adaptCall.fn = "toNumber" /\ adaptCall.encoding # "null") =>
           adaptResult = Dec(adaptCall.tenThousandths, 4)

(***************************************************************************)
(* Properties of the commander lists.                                      *)
(***************************************************************************)
\* the name is "Unknown Commander" in some mix of cases
IsUnknownName(name) ==
    name \in {"Unknown Commander", "unknown commander", "UNKNOWN COMMANDER"}

\* the rows that are not named Unknown Commander
KnownRows(rows) == SelectSeq(rows, LAMBDA c : ~IsUnknownName(c.commander_name))

\* C18: no row named "Unknown Commander", in any case, is in the commanders
\* table or in the two lists of the home page, and the totals and weighted
\* averages of the commanders page are those of the remaining rows.
C18_UnknownCommanderFilteredOut ==
    /\ commandersPage.view = "page" =>
           /\ commandersPage.table = KnownRows(commanders)
           /\ commandersPage = CommandersPageOf(KnownRows(commanders))
    /\ homePage.view = "page" =>
           /\ homePage.mostPlayed = KnownRows(homeStats.topCommanders)
           /\ homePage.topWinRate = KnownRows(homeStats.topWinRate)

\* the commanders page was rendered from a real commander and an upper-case
\* Unknown Commander row, and shows one
C18_Witness ==
    /\ commandersPage.view = "page"
    /\ Len(commanders) = 2
    /\ commanders[1].commander_name = "UNKNOWN COMMANDER"
    /\ commanders[2].commander_name = "Kinnan"
    /\ commandersPage.totalCommanders = 1
    /\ commandersPage.totalEntries = commanders[2].total_entries

(***************************************************************************)
(* Properties of the validation helpers and the survival schema.           *)
(***************************************************************************)
\* C19: safeValidateResponse returns null exactly when validateResponse
\* throws on the same schema and data; otherwise both return the same
\* parsed data, and that data passed validation.
C19_ValidatorsAgree ==
    contractCall.schema # "none" =>
        /\ safeValidated.isNull <=> validated.threw
        /\ ~validated.threw =>
               /\ safeValidated.value = validated.value
               /\ safeParse(contractCall.schema, contractCall.data).success
        /\ validated.threw =>
               ~safeParse(contractCall.schema, contractCall.data).success

\* both helpers were handed an array whose second row lacks the columns of
\* the schema: one threw, the other returned null
C19_Witness ==
    /\ contractCall.schema = "SurvivalCurveResponseSchema"
    /\ contractCall.data.kind = "array"
    /\ Len(contractCall.data.items) = 2
    /\ SurvivalPointSchema(contractCall.data.items[1]).success
    /\ "cumulative_survival" \notin DOMAIN contractCall.data.items[2].fields
    /\ validated.threw
    /\ safeValidated.isNull

\* C20: the first row of every non-empty response that validates against
\* SurvivalCurveResponseSchema has the properties round_number,
\* survival_probability and players_remaining.
C20_ValidResponseHasTestedColumns ==
    (/\ contractCall.schema = "SurvivalCurveResponseSchema"
     /\ ~validated.threw
     /\ Len(contractCall.data.items) > 0)
        => {"round_number", "survival_probability", "players_remaining"}
               \subseteq DOMAIN contractCall.data.items[1].fields

(***************************************************************************)
(* Properties of the recent finishes of a commander.                       *)
(***************************************************************************)
\* the rows of the query result that carry a tournament
RowsWithTournament ==
    {i \in 1..Len(finishesCall.result.data) :
        tournamentOf(finishesCall.result.data[i]) # <<>>}

\* the key and the start date of row i of the query result
RowKey(i) ==
    IF finishesCall.result.data[i].decklist_url = NullUrl
    THEN finishesCall.result.data[i].id
    ELSE finishesCall.result.data[i].decklist_url

RowDate(i) == tournamentOf(finishesCall.result.data[i])[1].start_date

\* C27: getRecentFinishes returns at most 8 finishes, newest first, no two
\* with the same key (decklist URL, or entry id when the URL is null), each
\* the most recent of the rows with its key; rows without a tournament are
\* left out and a query error gives the empty list.
C27_RecentFinishes ==
    finishesCall.done =>
        /\ finishesCall.result.error => recentFinishes = <<>>
        /\ Len(recentFinishes) <= 8
        /\ \A i, j \in 1..Len(recentFinishes) :
               i < j =>
                   /\ recentFinishes[i].tournament.start_date
                          >= recentFinishes[j].tournament.start_date
                   /\ finishKey(recentFinishes[i]) # finishKey(recentFinishes[j])
        /\ \A i \in 1..Len(recentFinishes) :
               /\ \E r \in RowsWithTournament :
                      /\ finishesCall.result.data[r].id = recentFinishes[i].id
                      /\ RowKey(r) = finishKey(recentFinishes[i])
                      /\ RowDate(r) = recentFinishes[i].tournament.start_date
               /\ \A r \in RowsWithTournament :
                      RowKey(r) = finishKey(recentFinishes[i])
                          => RowDate(r) <= recentFinishes[i].tournament.start_date

\* the query returned more than eight keys, two rows sharing a decklist with
\* the older one first, and a row without tournament; eight were returned
C27_Witness ==
    /\ finishesCall.done
    /\ ~finishesCall.result.error
    /\ Len(recentFinishes) = 8
    /\ Len(finishesCall.result.data) > 9
    /\ \E r \in 1..Len(finishesCall.result.data) : r \notin RowsWithTournament
    /\ \E r, q \in RowsWithTournament :
           /\ r < q
           /\ RowKey(r) = RowKey(q)
           /\ RowDate(r) < RowDate(q)

(***************************************************************************)
(* Properties of the commander detail route.                               *)
(***************************************************************************)
\* the secondary fetches that have returned
Returned == {name \in SecondaryFetches : detailResponses[name] # <<>>}

\* C21: a secondary fetch whose query errors yields the empty list, every
\* fetch yields what its own query result determines whatever the others
\* got, the page is rendered from these lists once all have returned, and
\* the route is not-found exactly when the commander_stats lookup errors or
\* has no row.
C21_SecondaryErrorsAreContained ==
    /\ \A name \in Returned :
           /\ detailResponses[name][1].error => detailFetched[name] = <<>>
           /\ (~detailResponses[name][1].error /\ name # "getRecentFinishes")
                  => detailFetched[name] = detailResponses[name][1].data
           /\ (~detailResponses[name][1].error /\ name = "getRecentFinishes")
                  => Len(detailFetched[name]) = Len(detailResponses[name][1].data)
    /\ detailPage.view = "notFound"
           <=> (detailLookup.done
                   /\ (detailLookup.result.error \/ detailLookup.result.data = <<>>))
    /\ detailPage.view = "page" <=> Returned = SecondaryFetches
    /\ detailPage.view = "page" =>
           /\ detailPage.cardReport = detailFetched["getCardReport"]
           /\ detailPage.cardPerformance = detailFetched["getCardPerformance"]
           /\ detailPage.notablePlayers = detailFetched["getNotablePlayers"]
           /\ detailPage.matchups = detailFetched["getCommanderMatchups"]
           /\ detailPage.recentFinishes = detailFetched["getRecentFinishes"]

\* the page was rendered although the notable-players query had failed, with
\* the rows the card report query returned
C21_Witness ==
    /\ detailPage.view = "page"
    /\ detailResponses["getNotablePlayers"][1].error
    /\ detailPage.notablePlayers = <<>>
    /\ ~detailResponses["getCardReport"][1].error
    /\ Len(detailPage.cardReport) = 1

(***************************************************************************)
(* Properties of the commander selection of /survival.                     *)
(***************************************************************************)
\* C22: once no get_survival_curve request is in flight (and no effect is
\* due), commanderSurvival is the response to the request issued for the
\* current selectedCommander, or the empty list when none is selected.
C22_LatestSelectionWins ==
    (mounted /\ ~effectsDue /\ requests = {}) =>
        commanderSurvival =
            IF selectedCommander = "" THEN <<>>
            ELSE IF latestRequest # <<>> /\ latestRequest[1].commander = selectedCommander
                 THEN OrEmpty(latestRequest[1].result)
                 ELSE <<"no request for the selection">>

\* the selection differs from the URL parameter and the step is the effect
\* pass that is due (a response leaves the set of requests smaller)
ParamOverridden ==
    /\ effectsDue
    /\ searchParams # ""
    /\ selectedCommander # searchParams
    /\ requests \subseteq requests'

\* C23: with a non-empty commander parameter in the URL, selectedCommander
\* equals it whenever the effects have settled, and the effect pass that
\* follows a different selection or Clear puts it back and sets viewMode to
\* "commander".
C23_UrlParameterWins ==
    /\ []((mounted /\ ~effectsDue /\ searchParams # "")
              => selectedCommander = searchParams)
    /\ [][ParamOverridden
              => (selectedCommander' = searchParams /\ viewMode' = "commander")]_vars

\* the URL names A, the user chose B, and the selection is A again with the
\* request for B still in flight
C23_Witness ==
    /\ mounted
    /\ ~effectsDue
    /\ searchParams = "A"
    /\ selectedCommander = "A"
    /\ viewMode = "commander"
    /\ \E request \in requests : request.commander = "B"

(***************************************************************************)
(* Properties of CommandersTable.                                          *)
(***************************************************************************)
\* the value of the active sort key in a row, for comparison
SortValue(row) ==
    CASE sortKey = "commander" ->
             CHOOSE i \in 1..Len(TableNames) : TableNames[i] = row.commander_name
      [] sortKey = "entries" -> row.total_entries
      [] sortKey = "tournaments" -> row.tournaments_played
      [] sortKey = "winRate" -> row.avg_win_rate
      [] sortKey = "top16" -> row.conversion_rate_top_16
      [] sortKey = "topCut" -> row.conversion_rate_top_cut

\* how often row occurs in list
Occurrences(list, row) == Cardinality({i \in 1..Len(list) : list[i] = row})

\* C24: the sort direction of CommandersTable is "desc" in every reachable
\* state, and the rows shown are the rows of the prop in descending order
\* of the active sort key, also after a click on the active column.
C24_AlwaysDescending ==
    tableMounted =>
        /\ sortDirection = "desc"
        /\ Len(sortedCommanders) = Len(tableCommanders)
        /\ \A row \in TableRows :
               Occurrences(sortedCommanders, row) = Occurrences(tableCommanders, row)
        /\ \A i, j \in 1..Len(sortedCommanders) :
               i < j => SortValue(sortedCommanders[i]) >= SortValue(sortedCommanders[j])

\* the win-rate header was clicked while win rate was the active column and
\* the rows, given in ascending order of it, are shown in descending order
C24_Witness ==
    /\ lastSortClick = [key |-> "winRate", active |-> TRUE]
    /\ Len(tableCommanders) = 3
    /\ tableCommanders[1].avg_win_rate < tableCommanders[3].avg_win_rate
    /\ sortedCommanders[1].avg_win_rate > sortedCommanders[3].avg_win_rate

(***************************************************************************)
(* Properties of Pagination.                                               *)
(***************************************************************************)
\* the page numbers of the page buttons, in the order shown
PagesOffered ==
    LET at == {i \in 1..Len(pagination.pages) : pagination.pages[i].kind = "page"}
    IN  [i \in at |-> pagination.pages[i].page]

\* C28: with totalPages >= 2, after any clicks on Previous, Next and page
\* buttons currentPage is in 1..totalPages; the page buttons carry strictly
\* increasing numbers of 1..totalPages, among them 1, totalPages and
\* currentPage; no two "..." are adjacent; Previous is disabled on page 1
\* and Next on the last page.
C28_PaginationStaysInRange ==
    totalPages >= 2 =>
        /\ currentPage \in 1..totalPages
        /\ pagination.view = "pagination"
        /\ \A i \in DOMAIN PagesOffered : PagesOffered[i] \in 1..totalPages
        /\ \A i, j \in DOMAIN PagesOffered : i < j => PagesOffered[i] < PagesOffered[j]
        /\ {1, totalPages, currentPage} \subseteq {PagesOffered[i] : i \in DOMAIN PagesOffered}
        /\ \A i \in 1..(Len(pagination.pages) - 1) :
               ~(pagination.pages[i].kind = "..." /\ pagination.pages[i + 1].kind = "...")
        /\ pagination.previousDisabled <=> currentPage = 1
        /\ pagination.nextDisabled <=> currentPage = totalPages

\* Next led to a middle page, with "..." on both sides of its window
C28_Witness ==
    /\ lastPageClick = "Next"
    /\ totalPages >= 9
    /\ currentPage = 5
    /\ Cardinality({i \in 1..Len(pagination.pages) : pagination.pages[i].kind = "..."}) = 2
    /\ ~pagination.previousDisabled
    /\ ~pagination.nextDisabled

(***************************************************************************)
(* Properties of the commander filter of /trap-spice.                      *)
(***************************************************************************)
\* the usage rows of a card, in the order of the query
UsageRowsOf(card) ==
    LET rows == SelectSeq(usageRows, LAMBDA r : r.card_name = card.card_name)
    IN  [i \in 1..Len(rows) |->
            [commander_id |-> rows[i].commander_id, deck_count |-> rows[i].deck_count]]

\* the top-commander list of card is made of its usage rows with the
\* highest deck counts, at most ten, in non-increasing order
TopTenOf(card) ==
    LET top == card.top_commanders
        all == UsageRowsOf(card)
    IN  /\ Len(top) <= 10
        /\ Len(top) = IF Len(all) < 10 THEN Len(all) ELSE 10
        /\ \A i \in 1..Len(top) : top[i] = all[i]
        /\ \A i, j \in 1..Len(top) : i < j => top[i].deck_count >= top[j].deck_count
        /\ \A i \in 1..Len(top), j \in (Len(top) + 1)..Len(all) :
               top[i].deck_count >= all[j].deck_count

\* shown is made of the cards of loaded whose list names the selected
\* commander, in their order, or of all of them when none is selected
ShownFor(shown, loaded) ==
    LET kept == {i \in 1..Len(loaded) :
                    \/ tsSelectedCommander = ""
                    \/ \E c \in 1..Len(loaded[i].top_commanders) :
                          loaded[i].top_commanders[c].commander_id = tsSelectedCommander}
    IN  shown = SubSeqAt(loaded, kept, 1)

\* C25: with a commander selected the trap list and the spice list hold
\* exactly the loaded cards whose top-commander list contains the commander,
\* each such list being the card's at most 10 usage rows with the highest
\* deck counts in non-increasing order; with none selected they hold all
\* loaded cards.
C25_FilterByTopCommanders ==
    /\ ShownFor(filteredTrapCards, trapCards)
    /\ ShownFor(filteredSpiceCards, spiceCards)
    /\ \A i \in 1..Len(trapCards) : TopTenOf(trapCards[i])
    /\ \A i \in 1..Len(spiceCards) : TopTenOf(spiceCards[i])

\* commander c2 is selected; it has the eleventh most decks with card T1,
\* whose list is full, so T1 is not shown, and T2, which it plays, is
C25_Witness ==
    /\ tsSelectedCommander = "c2"
    /\ Len(trapCards) = 2
    /\ Len(trapCards[1].top_commanders) = 10
    /\ Len(UsageRowsOf(trapCards[1])) = 11
    /\ Len(filteredTrapCards) = 1
    /\ filteredTrapCards[1].card_name = "T2"

(***************************************************************************)
(* Properties of the loading flags.                                        *)
(***************************************************************************)
\* C26: when the effects run and every issued request resolves, with rows
\* or with an error, the loading flag of each of the four pages becomes
\* false and stays false; a fetch function that has come to its end, also
\* after an error, has left loading false.
C26_LoadingEnds ==
    /\ <>[](\A page \in LoadingPages : ~pageLoading[page])
    /\ [](\A page \in LoadingPages : pageStep[page] = "done" => ~pageLoading[page])

\* every page has seen a request fail and none of them is loading
C26_Witness ==
    \A page \in LoadingPages :
        /\ pageStep[page] = "done"
        /\ pageErrors[page] # {}
        /\ ~pageLoading[page]

====
